---------------------------- MODULE Spec2Model ----------------------------
(***************************************************************************)
(* Model of the tolerant structural comparator and metrics aggregator of   *)
(* src/utils/metrics-calculator.ts (MetricsCalculator) and of the per-case *)
(* loop of the test command (src/commands/test.ts).                        *)
(*                                                                         *)
(* JavaScript values are tagged records:                                   *)
(*   [t |-> "null"], [t |-> "undefined"],                                  *)
(*   [t |-> "function", of |-> owner, name |-> Seq(char)],                 *)
(*   [t |-> "boolean", v |-> BOOLEAN],                                     *)
(*   [t |-> "number",  v |-> Int]      the number v/100 (hundredths),      *)
(*   [t |-> "string",  v |-> Seq(char)],                                   *)
(*   [t |-> "array",   ref |-> r, v |-> Seq(value)],                       *)
(*   [t |-> "object",  ref |-> r, v |-> Seq([k |-> Seq(char), val])],      *)
(* ref is the allocation the array/object belongs to: the comparator only  *)
(* ever tests two containers found at the same path for identity, so two   *)
(* containers are the same reference exactly when their allocations agree. *)
(* A ratio (similarity, average) is a reduced fraction [num, den]; 0/0 is  *)
(* NaN, 1/0 is Infinity and -1/0 is -Infinity.  The tests the code makes   *)
(* on numbers whose outcome depends on the rounding of binary64 (the       *)
(* tolerance test, the percentile index, the f1Score) are computed on the  *)
(* doubles themselves.                                                     *)
(***************************************************************************)
EXTENDS Integers, Sequences, FiniteSets

VARIABLES
    pc,          \* position of the modelled caller
    expected,    \* evaluateTestCase argument `expected`
    actual,      \* evaluateTestCase argument `actual`
    timeElapsed, \* evaluateTestCase argument `timeElapsed`
    cost,        \* evaluateTestCase argument `cost`
    input,       \* evaluateTestCase argument `input`
    testResult,  \* the TestResult evaluateTestCase returned
    comparison,  \* the ComparisonResult compareResponses returned
    testCases,   \* test command: finalTestCases (expected responses)
    index,       \* test command: loop index (0-based)
    results,     \* test command: results[]
    times,       \* calculateMetrics: the local `times` after getPercentile ran
    metrics,     \* the MetricsResult calculateMetrics returned
    metricsCalls, \* number of calculateMetrics invocations of the run
    verbose,     \* test command: options.verbose
    errorLog,    \* test command: the case numbers console.error reported
    nodeVersion  \* the Node.js release line the program runs on

vars == <<pc, expected, actual, timeElapsed, cost, input, testResult, comparison,
          testCases, index, results, times, metrics, metricsCalls, verbose, errorLog,
          nodeVersion>>

----------------------------------------------------------------------------
(* Arithmetic helpers *)

Abs(x) == IF x < 0 THEN -x ELSE x
Max(x, y) == IF x >= y THEN x ELSE y
Min(x, y) == IF x <= y THEN x ELSE y
Min3(x, y, z) == Min(x, Min(y, z))

RECURSIVE GCD(_, _)
GCD(x, y) == IF y = 0 THEN x ELSE GCD(y, x % y)

\* The double n/d as a reduced fraction; 0/0 is NaN, x/0 is +-Infinity.
NaN == [num |-> 0, den |-> 0]
Infinity == [num |-> 1, den |-> 0]
NegInfinity == [num |-> -1, den |-> 0]
\* a division that yields 0 for a zero divisor
FracGuarded(n, d) ==
    IF d = 0 THEN [num |-> 0, den |-> 1]
    ELSE LET s == IF d < 0 THEN -1 ELSE 1
             g == GCD(Abs(n), Abs(d))
         IN  [num |-> (s * n) \div g, den |-> (s * d) \div g]
Frac(n, d) ==
    IF d = 0 THEN (IF n = 0 THEN NaN ELSE IF n > 0 THEN Infinity ELSE NegInfinity)
    ELSE LET s == IF d < 0 THEN -1 ELSE 1
             g == GCD(Abs(n), Abs(d))
         IN  [num |-> (s * n) \div g, den |-> (s * d) \div g]
FracInt(n) == [num |-> n, den |-> 1]
IsNaN(f) == f.den = 0 /\ f.num = 0
\* f < g and f <= g: false when either is NaN; -Infinity is below and Infinity is
\* above every other number
FracLess(f, g) ==
    /\ ~IsNaN(f)
    /\ ~IsNaN(g)
    /\ IF f.den = 0 /\ g.den = 0 THEN f.num < g.num
       ELSE f.num * g.den < g.num * f.den
FracLeq(f, g) ==
    /\ ~IsNaN(f)
    /\ ~IsNaN(g)
    /\ IF f.den = 0 /\ g.den = 0 THEN f.num <= g.num
       ELSE f.num * g.den <= g.num * f.den
\* 1 - f: 1 - Infinity is -Infinity, 1 - -Infinity is Infinity, 1 - NaN is NaN
OneMinus(f) ==
    IF f.den = 0 THEN [num |-> -f.num, den |-> 0] ELSE Frac(f.den - f.num, f.den)

----------------------------------------------------------------------------
(* JavaScript values *)

Undefined == [t |-> "undefined"]
JNull == [t |-> "null"]
\* a built-in function: `of` is the object that owns it, `name` its name
JFunction(of, name) == [t |-> "function", of |-> of, name |-> name]
JBool(b) == [t |-> "boolean", v |-> b]
JNum(n) == [t |-> "number", v |-> n]
JInt(n) == JNum(n * 100)
JStr(s) == [t |-> "string", v |-> s]
JArr(r, items) == [t |-> "array", ref |-> r, v |-> items]
JObj(r, entries) == [t |-> "object", ref |-> r, v |-> entries]
Entry(key, val) == [k |-> key, val |-> val]

IsContainer(x) == x.t \in {"array", "object"}

\* typeof x
TypeOf(x) == IF x.t \in {"null", "array", "object"} THEN "object" ELSE x.t

\* a test for null and undefined only
FalsyNullish(x) == x.t \in {"null", "undefined"}

\* a test that also takes an empty array or object for a missing value
FalsyOrEmpty(x) ==
    \/ x.t \in {"null", "undefined"}
    \/ x.t = "boolean" /\ x.v = FALSE
    \/ x.t = "number" /\ x.v = 0
    \/ x.t \in {"string", "array", "object"} /\ x.v = <<>>

\* !x
Falsy(x) ==
    \/ x.t \in {"null", "undefined"}
    \/ x.t = "boolean" /\ x.v = FALSE
    \/ x.t = "number" /\ x.v = 0
    \/ x.t = "string" /\ x.v = <<>>

\* x === y
StrictEq(x, y) ==
    /\ x.t = y.t
    /\ CASE x.t \in {"null", "undefined"} -> TRUE
         [] x.t \in {"boolean", "number", "string"} -> x.v = y.v
         [] x.t = "function" -> x.of = y.of /\ x.name = y.name
         [] OTHER -> x.ref = y.ref

Digits == <<"0", "1", "2", "3", "4", "5", "6", "7", "8", "9">>
DigitOf(c) == CHOOSE d \in 0..9 : Digits[d + 1] = c
IsDigit(c) == \E d \in 0..9 : Digits[d + 1] = c

\* n.toString() of a non-negative integer, as a sequence of characters
RECURSIVE IntToString(_)
IntToString(n) == IF n < 10 THEN <<Digits[n + 1]>>
               ELSE IntToString(n \div 10) \o <<Digits[(n % 10) + 1]>>

\* the decimal text of a non-negative integer without leading zeros
\* ("0", "7", "12"; not "01", not "")
IsCanonicalInteger(k) ==
    /\ Len(k) >= 1
    /\ \A i \in 1..Len(k) : IsDigit(k[i])
    /\ (Len(k) > 1 => k[1] # "0")

\* j < k for two canonical integers, compared as texts
IndexLess(j, k) ==
    \/ Len(j) < Len(k)
    \/ /\ Len(j) = Len(k)
       /\ \E i \in 1..Len(j) : (\A h \in 1..(i - 1) : j[h] = k[h])
                                   /\ (DigitOf(j[i]) < DigitOf(k[i]))

\* 2^32 - 1, the first canonical integer that is not an array index
ArrayIndexLimit == <<"4", "2", "9", "4", "9", "6", "7", "2", "9", "5">>

\* an integer-like property key: an object lists these first, in ascending order
IsIndexKey(k) == IsCanonicalInteger(k) /\ IndexLess(k, ArrayIndexLimit)

\* the value of a run of digits
RECURSIVE IndexValue(_)
IndexValue(k) == IF Len(k) = 0 THEN 0
                 ELSE 10 * IndexValue(SubSeq(k, 1, Len(k) - 1)) + DigitOf(k[Len(k)])

\* Property names used by the code and the properties below
S_toString == <<"t", "o", "S", "t", "r", "i", "n", "g">>
S_valueOf == <<"v", "a", "l", "u", "e", "O", "f">>
S_constructor == <<"c", "o", "n", "s", "t", "r", "u", "c", "t", "o", "r">>
S_length == <<"l", "e", "n", "g", "t", "h">>
S_Object == <<"O", "b", "j", "e", "c", "t">>
S_Array == <<"A", "r", "r", "a", "y">>
S_proto == <<"_", "_", "p", "r", "o", "t", "o", "_", "_">>

\* The properties of Object.prototype whose value is a function: every object and
\* every array inherits them.
ObjectPrototypeFunctions ==
    { <<"c", "o", "n", "s", "t", "r", "u", "c", "t", "o", "r">>,
      <<"_", "_", "d", "e", "f", "i", "n", "e", "G", "e", "t", "t", "e", "r", "_", "_">>,
      <<"_", "_", "d", "e", "f", "i", "n", "e", "S", "e", "t", "t", "e", "r", "_", "_">>,
      <<"h", "a", "s", "O", "w", "n", "P", "r", "o", "p", "e", "r", "t", "y">>,
      <<"_", "_", "l", "o", "o", "k", "u", "p", "G", "e", "t", "t", "e", "r", "_", "_">>,
      <<"_", "_", "l", "o", "o", "k", "u", "p", "S", "e", "t", "t", "e", "r", "_", "_">>,
      <<"i", "s", "P", "r", "o", "t", "o", "t", "y", "p", "e", "O", "f">>,
      <<"p", "r", "o", "p", "e", "r", "t", "y", "I", "s", "E", "n", "u", "m", "e", "r", "a", "b", "l", "e">>,
      <<"t", "o", "S", "t", "r", "i", "n", "g">>,
      <<"v", "a", "l", "u", "e", "O", "f">>,
      <<"t", "o", "L", "o", "c", "a", "l", "e", "S", "t", "r", "i", "n", "g">> }

\* The Node.js release lines the package runs on (engines: node >= 16.0.0), each
\* named by its first release; they differ in the functions of Array.prototype.
NodeVersions == {"16.0", "16.6", "18", "20"}

\* The properties of Array.prototype whose value is a function: every array
\* inherits them, and they shadow the ones of Object.prototype.  Node.js 16.6
\* added at, 18 findLast and findLastIndex, 20 toReversed, toSorted, toSpliced
\* and with.
ArrayPrototypeFunctions ==
    { <<"c", "o", "n", "s", "t", "r", "u", "c", "t", "o", "r">>,
      <<"c", "o", "n", "c", "a", "t">>,
      <<"c", "o", "p", "y", "W", "i", "t", "h", "i", "n">>,
      <<"f", "i", "l", "l">>,
      <<"f", "i", "n", "d">>,
      <<"f", "i", "n", "d", "I", "n", "d", "e", "x">>,
      <<"l", "a", "s", "t", "I", "n", "d", "e", "x", "O", "f">>,
      <<"p", "o", "p">>,
      <<"p", "u", "s", "h">>,
      <<"r", "e", "v", "e", "r", "s", "e">>,
      <<"s", "h", "i", "f", "t">>,
      <<"u", "n", "s", "h", "i", "f", "t">>,
      <<"s", "l", "i", "c", "e">>,
      <<"s", "o", "r", "t">>,
      <<"s", "p", "l", "i", "c", "e">>,
      <<"i", "n", "c", "l", "u", "d", "e", "s">>,
      <<"i", "n", "d", "e", "x", "O", "f">>,
      <<"j", "o", "i", "n">>,
      <<"k", "e", "y", "s">>,
      <<"e", "n", "t", "r", "i", "e", "s">>,
      <<"v", "a", "l", "u", "e", "s">>,
      <<"f", "o", "r", "E", "a", "c", "h">>,
      <<"f", "i", "l", "t", "e", "r">>,
      <<"f", "l", "a", "t">>,
      <<"f", "l", "a", "t", "M", "a", "p">>,
      <<"m", "a", "p">>,
      <<"e", "v", "e", "r", "y">>,
      <<"s", "o", "m", "e">>,
      <<"r", "e", "d", "u", "c", "e">>,
      <<"r", "e", "d", "u", "c", "e", "R", "i", "g", "h", "t">>,
      <<"t", "o", "L", "o", "c", "a", "l", "e", "S", "t", "r", "i", "n", "g">>,
      <<"t", "o", "S", "t", "r", "i", "n", "g">> }
    \cup (IF nodeVersion \in {"16.6", "18", "20"}
          THEN { <<"a", "t">> }
          ELSE {})
    \cup (IF nodeVersion \in {"18", "20"}
          THEN { <<"f", "i", "n", "d", "L", "a", "s", "t">>,
                 <<"f", "i", "n", "d", "L", "a", "s", "t", "I", "n", "d", "e", "x">> }
          ELSE {})
    \cup (IF nodeVersion = "20"
          THEN { <<"t", "o", "R", "e", "v", "e", "r", "s", "e", "d">>,
                 <<"t", "o", "S", "o", "r", "t", "e", "d">>,
                 <<"t", "o", "S", "p", "l", "i", "c", "e", "d">>,
                 <<"w", "i", "t", "h">> }
          ELSE {})

\* the two prototype objects: neither has an enumerable own property, and
\* Array.prototype is itself an array of length 0
ObjectPrototype == JObj("Object.prototype", <<>>)
ArrayPrototype == JArr("Array.prototype", <<>>)

\* x.__proto__, the accessor of Object.prototype
PrototypeOf(x) ==
    IF x.ref = "Object.prototype" THEN JNull
    ELSE IF x.t = "array" /\ x.ref # "Array.prototype" THEN ArrayPrototype
    ELSE ObjectPrototype

\* the names x finds on its prototype chain
InheritedKeys(x) ==
    ObjectPrototypeFunctions \cup {S_proto}
        \cup (IF x.t = "array" THEN ArrayPrototypeFunctions ELSE {})

\* the value x finds on its prototype chain under `key`, a name of InheritedKeys(x):
\* `constructor` is the global Array or Object, the other functions are the methods
\* of the nearest prototype that has the name
Inherited(x, key) ==
    IF key = S_proto THEN PrototypeOf(x)
    ELSE IF x.t = "array" /\ key \in ArrayPrototypeFunctions
         THEN (IF key = S_constructor THEN JFunction("global", S_Array)
               ELSE JFunction("Array.prototype", key))
    ELSE IF key = S_constructor THEN JFunction("global", S_Object)
    ELSE JFunction("Object.prototype", key)

\* Object.keys(x) for an array or an object
ObjectKeys(x) ==
    IF x.t = "array" THEN [i \in 1..Len(x.v) |-> IntToString(i - 1)]
    ELSE [i \in 1..Len(x.v) |-> x.v[i].k]

\* the position of the own enumerable property `key` of x, if it has one
OwnIndex(x, key) ==
    IF x.t = "array" THEN {i \in 1..Len(x.v) : IntToString(i - 1) = key}
    ELSE {i \in 1..Len(x.v) : x.v[i].k = key}

\* key in x, for an array or an object (own and inherited properties)
HasProperty(x, key) ==
    \/ OwnIndex(x, key) # {}
    \/ x.t = "array" /\ key = S_length
    \/ key \in InheritedKeys(x)

\* x[key], for an array or an object
GetProperty(x, key) ==
    IF OwnIndex(x, key) # {}
    THEN LET i == CHOOSE i \in OwnIndex(x, key) : TRUE
         IN  IF x.t = "array" THEN x.v[i] ELSE x.v[i].val
    ELSE IF x.t = "array" /\ key = S_length THEN JInt(Len(x.v))
    ELSE IF key \in InheritedKeys(x) THEN Inherited(x, key)
    ELSE Undefined

----------------------------------------------------------------------------
(* IEEE 754 binary64 arithmetic on numbers >= 0, as JavaScript's number type
   computes.  A natural number is a sequence of limbs in base 2^LimbBits,
   lowest first, without leading zero limbs. *)

MantissaBits == 53
LimbBits == 14
LimbBase == 16384

RECURSIVE pow2(_)
pow2(k) == IF k = 0 THEN 1 ELSE 2 * pow2(k - 1)

LimbAt(n, i) == IF i >= 1 /\ i <= Len(n) THEN n[i] ELSE 0

RECURSIVE natTrim(_)
natTrim(n) ==
    IF Len(n) > 0 /\ n[Len(n)] = 0 THEN natTrim(SubSeq(n, 1, Len(n) - 1)) ELSE n

RECURSIVE natOfInt(_)
natOfInt(v) == IF v = 0 THEN <<>> ELSE <<v % LimbBase>> \o natOfInt(v \div LimbBase)

RECURSIVE natAddFrom(_, _, _, _)
natAddFrom(a, b, i, carry) ==
    IF i > Len(a) /\ i > Len(b) THEN (IF carry = 0 THEN <<>> ELSE <<carry>>)
    ELSE LET sum == LimbAt(a, i) + LimbAt(b, i) + carry
         IN  <<sum % LimbBase>> \o natAddFrom(a, b, i + 1, sum \div LimbBase)
natAdd(a, b) == natAddFrom(a, b, 1, 0)

\* a - b, for a >= b
RECURSIVE natSubFrom(_, _, _, _)
natSubFrom(a, b, i, borrow) ==
    IF i > Len(a) THEN <<>>
    ELSE LET diff == LimbAt(a, i) - LimbAt(b, i) - borrow
         IN  <<(diff + LimbBase) % LimbBase>>
                 \o natSubFrom(a, b, i + 1, IF diff < 0 THEN 1 ELSE 0)
natSub(a, b) == natTrim(natSubFrom(a, b, 1, 0))

RECURSIVE natLessFrom(_, _, _)
natLessFrom(a, b, i) ==
    IF i = 0 THEN FALSE
    ELSE IF a[i] # b[i] THEN a[i] < b[i]
    ELSE natLessFrom(a, b, i - 1)
natLess(a, b) ==
    IF Len(a) # Len(b) THEN Len(a) < Len(b) ELSE natLessFrom(a, b, Len(a))

\* a * d for one limb d
RECURSIVE natScaleFrom(_, _, _, _)
natScaleFrom(a, d, i, carry) ==
    IF i > Len(a) THEN (IF carry = 0 THEN <<>> ELSE <<carry>>)
    ELSE LET prod == a[i] * d + carry
         IN  <<prod % LimbBase>> \o natScaleFrom(a, d, i + 1, prod \div LimbBase)

RECURSIVE natMulFrom(_, _, _)
natMulFrom(a, b, i) ==
    IF i > Len(b) THEN <<>>
    ELSE natAdd(natScaleFrom(a, b[i], 1, 0), <<0>> \o natMulFrom(a, b, i + 1))
natMul(a, b) == natTrim(natMulFrom(a, b, 1))

\* the number of bits of n
RECURSIVE limbLength(_)
limbLength(v) == IF v = 0 THEN 0 ELSE 1 + limbLength(v \div 2)
natBitLength(n) ==
    IF Len(n) = 0 THEN 0 ELSE LimbBits * (Len(n) - 1) + limbLength(n[Len(n)])

\* n * 2^k
natShiftLeft(n, k) ==
    IF Len(n) = 0 THEN n
    ELSE [i \in 1..(k \div LimbBits) |-> 0] \o natScaleFrom(n, pow2(k % LimbBits), 1, 0)

\* n \div 2^k, from limb i on
RECURSIVE natShiftRightFrom(_, _, _)
natShiftRightFrom(n, part, i) ==
    IF i > Len(n) THEN <<>>
    ELSE <<(n[i] \div part) + (LimbAt(n, i + 1) % part) * (LimbBase \div part)>>
             \o natShiftRightFrom(n, part, i + 1)
natShiftRight(n, k) ==
    natTrim(natShiftRightFrom(n, pow2(k % LimbBits), (k \div LimbBits) + 1))

\* n % 2^k
natLowBits(n, k) == natSub(n, natShiftLeft(natShiftRight(n, k), k))

natOdd(n) == Len(n) > 0 /\ n[1] % 2 = 1

\* long division: the first k bits of r / d after the binary point, for r < d,
\* and what is left of r; the bits are produced half by half
RECURSIVE natFraction(_, _, _)
natFraction(r, d, k) ==
    IF k = 0 THEN [q |-> <<>>, r |-> r]
    ELSE IF k = 1
    THEN LET r2 == natAdd(r, r)
         IN  IF natLess(r2, d) THEN [q |-> <<>>, r |-> r2]
             ELSE [q |-> <<1>>, r |-> natSub(r2, d)]
    ELSE LET high == natFraction(r, d, k \div 2)
             low == natFraction(high.r, d, k - (k \div 2))
         IN  [q |-> natAdd(natShiftLeft(high.q, k - (k \div 2)), low.q), r |-> low.r]

\* a double >= 0: the value m * 2^e with a mantissa m of exactly MantissaBits
\* bits, or zero (exponents stay far from the limits of the format here)
DoubleZero == [m |-> <<>>, e |-> 0]

\* the double nearest to (n + f) * 2^e, where 0 <= f < 1 and sticky tells
\* whether f # 0; ties go to the even mantissa
roundToDouble(n, e, sticky) ==
    LET len == natBitLength(n)
        k == len - MantissaBits
    IN  IF len = 0 THEN DoubleZero
        ELSE IF k <= 0 THEN [m |-> natShiftLeft(n, -k), e |-> e + k]
        ELSE LET kept == natShiftRight(n, k)
                 half == natOdd(natShiftRight(n, k - 1))
                 below == sticky \/ Len(natLowBits(n, k - 1)) > 0
                 up == half /\ (below \/ natOdd(kept))
                 rounded == IF up THEN natAdd(kept, <<1>>) ELSE kept
             IN  IF natBitLength(rounded) > MantissaBits
                 THEN [m |-> natShiftRight(rounded, 1), e |-> e + k + 1]
                 ELSE [m |-> rounded, e |-> e + k]

doubleOfInt(v) == roundToDouble(natOfInt(v), 0, FALSE)

doubleMul(x, y) ==
    IF x = DoubleZero \/ y = DoubleZero THEN DoubleZero
    ELSE roundToDouble(natMul(x.m, y.m), x.e + y.e, FALSE)

\* x / y for y # 0: the quotient of the mantissas lies in (1/2, 2)
doubleDiv(x, y) ==
    CASE y # DoubleZero /\ x = DoubleZero -> DoubleZero
      [] y # DoubleZero /\ x # DoubleZero ->
         LET whole == ~natLess(x.m, y.m)
             f == natFraction(IF whole THEN natSub(x.m, y.m) ELSE x.m, y.m,
                              MantissaBits + 2)
             q == IF whole THEN natAdd(f.q, natShiftLeft(<<1>>, MantissaBits + 2))
                  ELSE f.q
         IN  roundToDouble(q, x.e - y.e - (MantissaBits + 2), Len(f.r) > 0)

doubleAdd(x, y) ==
    IF x = DoubleZero THEN y
    ELSE IF y = DoubleZero THEN x
    ELSE LET e == IF x.e < y.e THEN x.e ELSE y.e
         IN  roundToDouble(natAdd(natShiftLeft(x.m, x.e - e), natShiftLeft(y.m, y.e - e)),
                           e, FALSE)

\* the value of a natural small enough for an integer
RECURSIVE natToInt(_)
natToInt(n) == IF Len(n) = 0 THEN 0 ELSE n[1] + LimbBase * natToInt(Tail(n))

\* Math.ceil(x)
doubleCeil(x) ==
    IF x = DoubleZero THEN 0
    ELSE IF x.e >= 0 THEN natToInt(natShiftLeft(x.m, x.e))
    ELSE IF -x.e >= MantissaBits THEN 1
    ELSE natToInt(natShiftRight(x.m, -x.e))
             + (IF Len(natLowBits(x.m, -x.e)) > 0 THEN 1 ELSE 0)

\* x < y and x <= y
doubleLess(x, y) ==
    IF y = DoubleZero THEN FALSE
    ELSE IF x = DoubleZero THEN TRUE
    ELSE x.e < y.e \/ (x.e = y.e /\ natLess(x.m, y.m))
doubleLeq(x, y) == ~doubleLess(y, x)

\* Math.max(x, y)
doubleMax(x, y) == IF doubleLess(x, y) THEN y ELSE x

\* Math.abs(x - y)
doubleDistance(x, y) ==
    LET big == doubleMax(x, y)
        small == IF doubleLess(x, y) THEN x ELSE y
    IN  IF small = DoubleZero THEN big
        ELSE roundToDouble(natSub(natShiftLeft(big.m, big.e - small.e), small.m),
                           small.e, FALSE)

\* n \div d and n % d for one limb d, from limb i down
RECURSIVE natDivLimbFrom(_, _, _, _)
natDivLimbFrom(n, d, i, rem) ==
    IF i = 0 THEN [q |-> <<>>, r |-> rem]
    ELSE LET cur == rem * LimbBase + n[i]
             low == natDivLimbFrom(n, d, i - 1, cur % d)
         IN  [q |-> Append(low.q, cur \div d), r |-> low.r]
natDivLimb(n, d) ==
    LET res == natDivLimbFrom(n, d, Len(n), 0) IN [q |-> natTrim(res.q), r |-> res.r]

\* the double nearest to h/100 for h >= 0: the value of a numeral of h hundredths
\* (the quotient is taken with more bits below the binary point than a mantissa has)
doubleOfHundredths(h) ==
    LET bits == MantissaBits + 2 * LimbBits
        res == natDivLimb(natShiftLeft(natOfInt(h), bits), 100)
    IN  roundToDouble(res.q, -bits, res.r # 0)

----------------------------------------------------------------------------
(* MetricsCalculator: the comparator *)

\* One row of the edit-distance table: track[j][0..n] from track[j-1][0..n].
\* Rows are sequences indexed 1..n+1 (column i is element i+1).
RECURSIVE trackRow(_, _, _, _, _)
trackRow(str1, str2, prev, j, row) ==
    LET i == Len(row)
    IN  IF i > Len(str1) THEN row
        ELSE LET indicator == IF str1[i] = str2[j] THEN 0 ELSE 1
                 cell == Min3(row[i] + 1, prev[i + 1] + 1, prev[i] + indicator)
             IN  trackRow(str1, str2, prev, j, Append(row, cell))

RECURSIVE trackRows(_, _, _, _)
trackRows(str1, str2, prev, j) ==
    IF j > Len(str2) THEN prev
    ELSE trackRows(str1, str2, trackRow(str1, str2, prev, j, <<j>>), j + 1)

\* track[str2.length][str1.length]
levenshteinDistance(str1, str2) ==
    LET row0 == [i \in 1..(Len(str1) + 1) |-> i - 1]
    IN  trackRows(str1, str2, row0, 1)[Len(str1) + 1]

\* a variant that divides the distance by the first string's length
calculateStringSimilarityByFirst(str1, str2) ==
    LET distance == levenshteinDistance(str1, str2)
    IN  OneMinus(Frac(Min(distance, Len(str1)), Len(str1)))

calculateStringSimilarity(str1, str2) ==
    LET distance == levenshteinDistance(str1, str2)
        maxLength == Max(Len(str1), Len(str2))
    IN  OneMinus(Frac(distance, maxLength))

\* relTolerance = 0.1 and absTolerance = 0.1, in hundredths
RelToleranceHundredths == 10
AbsToleranceHundredths == 10

relTolerance == doubleOfHundredths(RelToleranceHundredths)
absTolerance == doubleOfHundredths(AbsToleranceHundredths)

\* n1, n2 in hundredths; the test is computed on the doubles, as the code does:
\* Math.abs(n1 - n2) <= Math.max(absTolerance, relTolerance * Math.max(|n1|, |n2|))
areNumbersClose(n1, n2) ==
    LET x == doubleOfHundredths(Abs(n1))
        y == doubleOfHundredths(Abs(n2))
        distance == IF (n1 < 0) = (n2 < 0) THEN doubleDistance(x, y) ELSE doubleAdd(x, y)
    IN  doubleLeq(distance, doubleMax(absTolerance, doubleMul(relTolerance, doubleMax(x, y))))

\* the similarity of two numbers without the cap of the ratio at 1
numberSimilarityUncapped(e, a) ==
    LET ratio == Frac(Abs(e - a), Max(Abs(e), Abs(a)))
    IN  IF IsNaN(ratio) THEN NaN ELSE OneMinus(ratio)

\* 1 - Math.min(Math.abs(e - a) / Math.max(Math.abs(e), Math.abs(a)), 1)
numberSimilarity(e, a) ==
    LET d == Abs(e - a)
        m == Max(Abs(e), Abs(a))
        ratio == Frac(d, m)
    IN  IF IsNaN(ratio) THEN NaN
        ELSE IF ratio.den = 0 \/ ratio.num >= ratio.den THEN FracInt(0)
        ELSE OneMinus(ratio)

S_root == <<"r", "o", "o", "t">>

\* path[path.length - 1] || 'root'
diffKey(path) ==
    IF Len(path) = 0 \/ path[Len(path)] = <<>> THEN S_root ELSE path[Len(path)]

Difference(path, e, a, similarity) ==
    [key |-> diffKey(path), expected |-> e, actual |-> a, path |-> path,
     similarity |-> similarity]


\* `Array(${n})`
arrayPlaceholder(n) == JStr(S_Array \o <<"(">> \o IntToString(n) \o <<")">>)

\* keys.join(', ')
RECURSIVE joinKeys(_)
joinKeys(keys) ==
    IF Len(keys) = 0 THEN <<>>
    ELSE IF Len(keys) = 1 THEN keys[1]
    ELSE keys[1] \o <<",", " ">> \o joinKeys(Tail(keys))

\* `Object(${keys.join(', ')})`
objectPlaceholder(keys) == JStr(S_Object \o <<"(">> \o joinKeys(keys) \o <<")">>)

Pass(differences) == [ok |-> TRUE, differences |-> differences]
Fail(differences) == [ok |-> FALSE, differences |-> differences]

\* the nullish check, the typeof check, the boolean rule and the fallback:
\* push a difference of similarity 0 unless expected === actual
strictRule(e, a, path, differences) ==
    LET isMatch == StrictEq(e, a)
        out == IF ~isMatch
               THEN Append(differences, Difference(path, e, a, FracInt(0)))
               ELSE differences
    IN  [ok |-> isMatch, differences |-> out]

\* a variant of the number rule that returns isClose
numberRuleStrict(e, a, path, differences) ==
    LET isClose == areNumbersClose(e.v, a.v)
        similarity == numberSimilarity(e.v, a.v)
        out == IF ~isClose
               THEN Append(differences, Difference(path, e, a, similarity))
               ELSE differences
    IN  [ok |-> isClose, differences |-> out]

\* the number rule
numberRule(e, a, path, differences) ==
    LET isClose == areNumbersClose(e.v, a.v)
        similarity == numberSimilarity(e.v, a.v)
        out == IF ~isClose
               THEN Append(differences, Difference(path, e, a, similarity))
               ELSE differences
    IN  [ok |-> FracLess(FracInt(0), similarity), differences |-> out]

\* a variant of the string rule that lets every pair of strings pass
stringRuleLenient(e, a, path, differences) ==
    LET similarity == calculateStringSimilarity(e.v, a.v)
        out == IF FracLess(similarity, FracInt(1))
               THEN Append(differences, Difference(path, e, a, similarity))
               ELSE differences
    IN  [ok |-> TRUE, differences |-> out]

\* the string rule
stringRule(e, a, path, differences) ==
    LET similarity == calculateStringSimilarity(e.v, a.v)
        out == IF FracLess(similarity, FracInt(1))
               THEN Append(differences, Difference(path, e, a, similarity))
               ELSE differences
    IN  [ok |-> FracLess(FracInt(0), similarity), differences |-> out]

\* the summary of two arrays of different lengths
arrayLengthMismatch(e, a, path, differences) ==
    Fail(Append(differences,
         Difference(path, arrayPlaceholder(Len(e.v)), arrayPlaceholder(Len(a.v)),
                    Frac(Min(Len(e.v), Len(a.v)), Max(Len(e.v), Len(a.v))))))

\* expectedKeys.filter(key => !(key in actual))
missingKeysOf(e, a) ==
    LET NotInActual(key) == ~HasProperty(a, key)
    IN  SelectSeq(ObjectKeys(e), NotInActual)

\* actualKeys.filter(key => !(key in expected))
extraKeysOf(e, a) ==
    LET NotInExpected(key) == ~HasProperty(e, key)
    IN  SelectSeq(ObjectKeys(a), NotInExpected)

\* the summary of two objects with missing or extra keys
objectKeyMismatch(e, a, path, differences) ==
    LET expectedKeys == ObjectKeys(e)
        actualKeys == ObjectKeys(a)
    IN  Fail(Append(differences,
             Difference(path, objectPlaceholder(expectedKeys), objectPlaceholder(actualKeys),
                        Frac(Len(expectedKeys) - Len(missingKeysOf(e, a)),
                             Max(Len(expectedKeys), Len(actualKeys))))))

\* deepCompare(expected, actual, path, differences): the boolean it returns and
\* the shared differences list as the call leaves it.
RECURSIVE deepCompare(_, _, _, _), everyItem(_, _, _, _, _), everyKey(_, _, _, _, _, _)
deepCompare(e, a, path, differences) ==
    IF StrictEq(e, a) THEN Pass(differences)
    ELSE IF Falsy(e) \/ Falsy(a) THEN
        Fail(Append(differences, Difference(path, e, a, FracInt(0))))
    ELSE IF TypeOf(e) # TypeOf(a) THEN
        Fail(Append(differences, Difference(path, e, a, FracInt(0))))
    ELSE IF TypeOf(e) = "boolean" THEN strictRule(e, a, path, differences)
    ELSE IF TypeOf(e) = "number" /\ TypeOf(a) = "number" THEN numberRule(e, a, path, differences)
    ELSE IF TypeOf(e) = "string" /\ TypeOf(a) = "string" THEN stringRule(e, a, path, differences)
    ELSE IF e.t = "array" /\ a.t = "array" THEN
        IF Len(e.v) # Len(a.v) THEN arrayLengthMismatch(e, a, path, differences)
        ELSE everyItem(e, a, path, differences, 1)
    ELSE IF TypeOf(e) = "object" THEN
        IF Len(missingKeysOf(e, a)) > 0 \/ Len(extraKeysOf(e, a)) > 0
        THEN objectKeyMismatch(e, a, path, differences)
        ELSE everyKey(e, a, ObjectKeys(e), path, differences, 1)
    ELSE strictRule(e, a, path, differences)

\* a traversal of the values that goes on after a failure
RECURSIVE everyKeyExhaustive(_, _, _, _, _, _)
everyKeyExhaustive(e, a, expectedKeys, path, differences, i) ==
    IF i > Len(expectedKeys) THEN Pass(differences)
    ELSE LET key == expectedKeys[i]
             r == deepCompare(GetProperty(e, key), GetProperty(a, key),
                              Append(path, key), differences)
             rest == everyKeyExhaustive(e, a, expectedKeys, path, r.differences, i + 1)
         IN  [ok |-> r.ok /\ rest.ok, differences |-> rest.differences]

\* expected.every((item, index) => deepCompare(item, actual[index], [...path, index], differences))
everyItem(e, a, path, differences, i) ==
    IF i > Len(e.v) THEN Pass(differences)
    ELSE LET r == deepCompare(e.v[i], a.v[i], Append(path, IntToString(i - 1)), differences)
         IN  IF r.ok THEN everyItem(e, a, path, r.differences, i + 1) ELSE r

\* expectedKeys.every(key => deepCompare(expected[key], actual[key], [...path, key], differences))
everyKey(e, a, expectedKeys, path, differences, i) ==
    IF i > Len(expectedKeys) THEN Pass(differences)
    ELSE LET key == expectedKeys[i]
             r == deepCompare(GetProperty(e, key), GetProperty(a, key),
                              Append(path, key), differences)
         IN  IF r.ok THEN everyKey(e, a, expectedKeys, path, r.differences, i + 1) ELSE r

----------------------------------------------------------------------------
(* JSON.parse, on a sequence of characters: null, true, false, numbers,   *)
(* strings, arrays and objects, with white space between the tokens.       *)
(* `r` is the allocation of the containers the call creates.               *)
(* A number is kept in hundredths, and a character is one the alphabet of  *)
(* this module can write: parseNumber has no value for a numeral that is   *)
(* not a whole number of hundredths, and parseString none for the escapes  *)
(* \b and \uXXXX.                                                          *)

ParseFail == [ok |-> FALSE, val |-> Undefined, rest |-> <<>>]
ParseOk(val, rest) == [ok |-> TRUE, val |-> val, rest |-> rest]

\* the white space of JSON: space, tab, line feed, carriage return
WhiteSpace == {" ", "\t", "\n", "\r"}

RECURSIVE SkipWs(_)
SkipWs(s) == IF Len(s) > 0 /\ s[1] \in WhiteSpace THEN SkipWs(Tail(s)) ELSE s

StartsWith(s, p) == Len(s) >= Len(p) /\ SubSeq(s, 1, Len(p)) = p
Drop(s, n) == SubSeq(s, n + 1, Len(s))

\* the longest prefix of digits of s
RECURSIVE DigitRun(_)
DigitRun(s) == IF Len(s) > 0 /\ IsDigit(s[1]) THEN <<s[1]>> \o DigitRun(Tail(s)) ELSE <<>>

RECURSIVE Pow10(_)
Pow10(k) == IF k = 0 THEN 1 ELSE 10 * Pow10(k - 1)

\* digits * 10^exponent in hundredths, for a run of digits read as an integer
DecimalHundredths(digits, exponent) ==
    LET k == exponent + 2
        cut == Len(digits) + k
        kept == IF cut > 0 THEN cut ELSE 0
    IN  CASE \A i \in 1..Len(digits) : digits[i] = "0" -> 0
          [] (\E i \in 1..Len(digits) : digits[i] # "0") /\ k >= 0 ->
                IndexValue(digits) * Pow10(k)
          [] /\ \E i \in 1..Len(digits) : digits[i] # "0"
             /\ k < 0
             /\ \A i \in (kept + 1)..Len(digits) : digits[i] = "0" ->
                IndexValue(SubSeq(digits, 1, kept))

\* A numeral is -? (0 | [1-9][0-9]*) (. [0-9]+)? ([eE] [+-]? [0-9]+)?, read in
\* four steps; `digits` are the digits read so far and `places` how many of them
\* follow the point.
numberOf(neg, digits, exponent, rest) ==
    LET magnitude == DecimalHundredths(digits, exponent)
    IN  ParseOk(JNum(IF neg THEN -magnitude ELSE magnitude), rest)

\* s starts after the fraction
numberAfterFraction(neg, digits, places, s) ==
    IF Len(s) > 0 /\ s[1] \in {"e", "E"}
    THEN LET signed == Len(s) > 1 /\ s[2] \in {"+", "-"}
             exp == DigitRun(Drop(s, IF signed THEN 2 ELSE 1))
             exponent == IF signed /\ s[2] = "-" THEN -IndexValue(exp) ELSE IndexValue(exp)
         IN  IF Len(exp) = 0 THEN ParseFail
             ELSE numberOf(neg, digits, exponent - places,
                           Drop(s, (IF signed THEN 2 ELSE 1) + Len(exp)))
    ELSE numberOf(neg, digits, -places, s)

\* s starts after the integer part
numberAfterInteger(neg, int, s) ==
    IF Len(s) > 0 /\ s[1] = "."
    THEN LET frac == DigitRun(Tail(s))
         IN  IF Len(frac) = 0 THEN ParseFail
             ELSE numberAfterFraction(neg, int \o frac, Len(frac), Drop(s, 1 + Len(frac)))
    ELSE numberAfterFraction(neg, int, 0, s)

\* s starts after the sign
numberAfterSign(neg, s) ==
    LET int == DigitRun(s)
    IN  IF Len(int) = 0 \/ (Len(int) > 1 /\ int[1] = "0") THEN ParseFail
        ELSE numberAfterInteger(neg, int, Drop(s, Len(int)))

parseNumber(s) ==
    IF Len(s) > 0 /\ s[1] = "-" THEN numberAfterSign(TRUE, Tail(s))
    ELSE numberAfterSign(FALSE, s)

\* the control characters this alphabet can write; a string literal holds none
ControlCodes == {"\t", "\n", "\f", "\r"}
HexDigits == {"0", "1", "2", "3", "4", "5", "6", "7", "8", "9",
              "a", "b", "c", "d", "e", "f", "A", "B", "C", "D", "E", "F"}

\* the character the escape \c stands for
Unescaped(c) ==
    CASE c \in {"\"", "\\", "/"} -> c
      [] c = "n" -> "\n"
      [] c = "t" -> "\t"
      [] c = "r" -> "\r"
      [] c = "f" -> "\f"

\* the characters of a string literal from s on, up to its closing quote
RECURSIVE StringRun(_, _)
StringRun(s, body) ==
    IF Len(s) = 0 \/ s[1] \in ControlCodes THEN ParseFail
    ELSE IF s[1] = "\"" THEN ParseOk(JStr(body), Tail(s))
    ELSE IF s[1] # "\\" THEN StringRun(Tail(s), Append(body, s[1]))
    ELSE IF Len(s) < 2 THEN ParseFail
    ELSE IF s[2] = "u" /\ ~(Len(s) >= 6 /\ \A i \in 3..6 : s[i] \in HexDigits) THEN ParseFail
    ELSE IF s[2] \in {"\"", "\\", "/", "b", "f", "n", "r", "t", "u"}
         THEN StringRun(Drop(s, 2), Append(body, Unescaped(s[2])))
    ELSE ParseFail

\* s starts at the opening quote
parseString(s) == StringRun(Tail(s), <<>>)

\* obj[key] = val on the ordered own properties of an object: an existing key keeps
\* its place, index keys come first in ascending order, other keys in insertion order
RECURSIVE setProperty(_, _, _)
setProperty(entries, key, val) ==
    IF Len(entries) = 0 THEN <<Entry(key, val)>>
    ELSE IF entries[1].k = key THEN <<Entry(key, val)>> \o Tail(entries)
    ELSE IF /\ IsIndexKey(key)
            /\ \A i \in 1..Len(entries) : entries[i].k # key
            /\ (~IsIndexKey(entries[1].k) \/ IndexLess(key, entries[1].k))
         THEN <<Entry(key, val)>> \o entries
    ELSE <<entries[1]>> \o setProperty(Tail(entries), key, val)

S_null == <<"n", "u", "l", "l">>
S_true == <<"t", "r", "u", "e">>
S_false == <<"f", "a", "l", "s", "e">>

RECURSIVE parseValue(_, _), parseElements(_, _, _), parseMembers(_, _, _)
\* s has no leading space
parseValue(s, r) ==
    IF Len(s) = 0 THEN ParseFail
    ELSE IF StartsWith(s, S_null) THEN ParseOk(JNull, Drop(s, 4))
    ELSE IF StartsWith(s, S_true) THEN ParseOk(JBool(TRUE), Drop(s, 4))
    ELSE IF StartsWith(s, S_false) THEN ParseOk(JBool(FALSE), Drop(s, 5))
    ELSE IF s[1] = "-" \/ IsDigit(s[1]) THEN parseNumber(s)
    ELSE IF s[1] = "\"" THEN parseString(s)
    ELSE IF s[1] = "[" THEN
        LET s1 == SkipWs(Tail(s))
        IN  IF Len(s1) > 0 /\ s1[1] = "]" THEN ParseOk(JArr(r, <<>>), Tail(s1))
            ELSE parseElements(s1, r, <<>>)
    ELSE IF s[1] = "{" THEN
        LET s1 == SkipWs(Tail(s))
        IN  IF Len(s1) > 0 /\ s1[1] = "}" THEN ParseOk(JObj(r, <<>>), Tail(s1))
            ELSE parseMembers(s1, r, <<>>)
    ELSE ParseFail

\* s starts at an element; items are the elements read so far
parseElements(s, r, items) ==
    LET e == parseValue(s, r)
        s1 == SkipWs(e.rest)
    IN  IF ~e.ok \/ Len(s1) = 0 THEN ParseFail
        ELSE IF s1[1] = "]" THEN ParseOk(JArr(r, Append(items, e.val)), Tail(s1))
        ELSE IF s1[1] = "," THEN parseElements(SkipWs(Tail(s1)), r, Append(items, e.val))
        ELSE ParseFail

\* s starts at a member's key; entries are the members read so far
parseMembers(s, r, entries) ==
    IF Len(s) = 0 \/ s[1] # "\"" THEN ParseFail
    ELSE LET key == parseString(s)
             s1 == SkipWs(key.rest)
         IN  IF ~key.ok \/ Len(s1) = 0 \/ s1[1] # ":" THEN ParseFail
             ELSE LET val == parseValue(SkipWs(Tail(s1)), r)
                      s2 == SkipWs(val.rest)
                      next == setProperty(entries, key.val.v, val.val)
                  IN  IF ~val.ok \/ Len(s2) = 0 THEN ParseFail
                      ELSE IF s2[1] = "}" THEN ParseOk(JObj(r, next), Tail(s2))
                      ELSE IF s2[1] = "," THEN parseMembers(SkipWs(Tail(s2)), r, next)
                      ELSE ParseFail

\* JSON.parse(text): ok = FALSE when it throws
JSONparse(text, r) ==
    LET p == parseValue(SkipWs(text), r)
    IN  IF p.ok /\ SkipWs(p.rest) = <<>> THEN [ok |-> TRUE, val |-> p.val]
        ELSE [ok |-> FALSE, val |-> Undefined]

----------------------------------------------------------------------------
(* MetricsCalculator: key flattener, compareResponses, evaluateTestCase *)

\* an optional property of a result object
Some(x) == [def |-> TRUE, v |-> x]
None == [def |-> FALSE, v |-> <<>>]

\* Object.entries(x) for an array or an object
ObjectEntries(x) ==
    IF x.t = "array" THEN [i \in 1..Len(x.v) |-> Entry(IntToString(i - 1), x.v[i])]
    ELSE x.v

RECURSIVE getAllKeys(_, _), flatMapEntries(_, _, _)
getAllKeys(obj, prefix) ==
    IF Falsy(obj) \/ TypeOf(obj) # "object" THEN <<>>
    ELSE flatMapEntries(ObjectEntries(obj), prefix, 1)

\* Object.entries(obj).flatMap(([key, value]) => ...), from entry i on
flatMapEntries(entries, prefix, i) ==
    IF i > Len(entries) THEN <<>>
    ELSE LET key == entries[i].k
             value == entries[i].val
             currentKey == IF prefix # <<>> THEN prefix \o <<".">> \o key ELSE key
             own == IF ~Falsy(value) /\ TypeOf(value) = "object" /\ value.t # "array"
                    THEN <<currentKey>> \o getAllKeys(value, currentKey)
                    ELSE <<currentKey>>
         IN  own \o flatMapEntries(entries, prefix, i + 1)

\* [...new Set(list)]: first occurrences, in order
Distinct(list) ==
    LET F[i \in 0..Len(list)] ==
            IF i = 0 THEN <<>>
            ELSE IF \E j \in 1..(i - 1) : list[j] = list[i] THEN F[i - 1]
            ELSE Append(F[i - 1], list[i])
    IN  F[Len(list)]

Contains(list, x) == \E i \in 1..Len(list) : list[i] = x

S_parse_error == <<"p", "a", "r", "s", "e", "_", "e", "r", "r", "o", "r">>

\* allocations of the containers JSON.parse creates for the two arguments
RefExpected == "expected"
RefActual == "actual"

\* typeof x === 'string' ? JSON.parse(x) : x   (ok = FALSE when JSON.parse throws)
parseArgument(x, r) ==
    IF TypeOf(x) = "string" THEN JSONparse(x.v, r) ELSE [ok |-> TRUE, val |-> x]

\* the object compareResponses returns from its try block
comparisonResult(cmp, matchedFields, missingFields, extraFields) ==
    [isMatch |-> cmp.ok,
     differences |-> IF Len(cmp.differences) > 0 THEN Some(cmp.differences) ELSE None,
     matchedFields |-> Some(matchedFields),
     missingFields |-> IF Len(missingFields) > 0 THEN Some(missingFields) ELSE None,
     extraFields |-> IF Len(extraFields) > 0 THEN Some(extraFields) ELSE None]

\* a variant that reports every expected key as matched
fieldStatisticsUnfiltered(cmp, expectedKeys, actualKeys) ==
    LET NotInActual(key) == ~Contains(actualKeys, key)
        NotInExpected(key) == ~Contains(expectedKeys, key)
    IN  comparisonResult(cmp,
                         expectedKeys,
                         SelectSeq(expectedKeys, NotInActual),
                         SelectSeq(actualKeys, NotInExpected))

\* the field statistics of the try block, from the two key sets
fieldStatistics(cmp, expectedKeys, actualKeys) ==
    LET InActual(key) == Contains(actualKeys, key)
        NotInActual(key) == ~Contains(actualKeys, key)
        NotInExpected(key) == ~Contains(expectedKeys, key)
    IN  comparisonResult(cmp,
                         SelectSeq(expectedKeys, InActual),
                         SelectSeq(expectedKeys, NotInActual),
                         SelectSeq(actualKeys, NotInExpected))

\* the try block after the two arguments were parsed
compareParsed(expectedObj, actualObj) ==
    fieldStatistics(deepCompare(expectedObj, actualObj, <<>>, <<>>),
                    Distinct(getAllKeys(expectedObj, <<>>)),
                    Distinct(getAllKeys(actualObj, <<>>)))

\* the object compareResponses returns from its catch block
parseErrorResult(e, a) ==
    [isMatch |-> FALSE,
     differences |-> Some(<<[key |-> S_parse_error, expected |-> e, actual |-> a,
                             path |-> <<S_root>>, similarity |-> Undefined]>>),
     matchedFields |-> None,
     missingFields |-> None,
     extraFields |-> None]

\* a variant whose try block covers the parse of `expected` only
tryCompareExpectedOnly(eParsed, aParsed, e, a) ==
    IF eParsed.ok THEN compareParsed(eParsed.val, IF aParsed.ok THEN aParsed.val ELSE a)
    ELSE parseErrorResult(e, a)

tryCompare(eParsed, aParsed, e, a) ==
    IF eParsed.ok /\ aParsed.ok THEN compareParsed(eParsed.val, aParsed.val)
    ELSE parseErrorResult(e, a)

compareResponses(e, a) ==
    tryCompare(parseArgument(e, RefExpected), parseArgument(a, RefActual), e, a)

\* a variant that lets only a comparison without differences succeed
packageTestResultStrict(cmp, e, a, time, c, inputText) ==
    [input |-> inputText,
     expectedResponse |-> e,
     actualResponse |-> a,
     timeElapsed |-> time,
     cost |-> c,
     isFinished |-> TRUE,
     isSuccess |-> cmp.isMatch /\ ~cmp.differences.def,
     differences |-> cmp.differences,
     matchedFields |-> cmp.matchedFields,
     missingFields |-> cmp.missingFields,
     extraFields |-> cmp.extraFields]

\* the TestResult evaluateTestCase builds from the comparison
packageTestResult(cmp, e, a, time, c, inputText) ==
    [input |-> inputText,
     expectedResponse |-> e,
     actualResponse |-> a,
     timeElapsed |-> time,
     cost |-> c,
     isFinished |-> TRUE,
     isSuccess |-> cmp.isMatch,
     differences |-> cmp.differences,
     matchedFields |-> cmp.matchedFields,
     missingFields |-> cmp.missingFields,
     extraFields |-> cmp.extraFields]

evaluateTestCase(e, a, time, c, inputText) ==
    packageTestResult(compareResponses(e, a), e, a, time, c, inputText)

----------------------------------------------------------------------------
(* Sizes of the batches explored *)

\* test cases of a run of the test command
MaxCases == 3
\* TestResults of a batch given to calculateMetrics
MaxBatch == 5
\* TestResults of a batch drawn from the whole pool of sample results
MaxMixed == 3

----------------------------------------------------------------------------
(* MetricsCalculator: getPercentile and calculateMetrics *)

\* f + g: Infinity + -Infinity is NaN, an infinite operand wins over a finite one
FracAdd(f, g) ==
    IF f.den = 0 /\ g.den = 0 THEN (IF f.num = g.num THEN f ELSE NaN)
    ELSE Frac(f.num * g.den + g.num * f.den, f.den * g.den)
\* f * g: 0 * Infinity is NaN, otherwise the signs multiply
FracMul(f, g) == Frac(f.num * g.num, f.den * g.den)
\* f / g: x / +-Infinity is 0, Infinity / Infinity and 0 / 0 are NaN, an infinite
\* quotient has the sign of the two operands
FracDiv(f, g) ==
    LET n == f.num * g.den
        d == f.den * g.num
    IN  IF d = 0 /\ g.num < 0 THEN Frac(-n, 0) ELSE Frac(n, d)

\* insert x into the ascending list `sorted`, after the elements equal to it
RECURSIVE insertAscending(_, _)
insertAscending(sorted, x) ==
    IF Len(sorted) = 0 THEN <<x>>
    ELSE IF x < sorted[1] THEN <<x>> \o sorted
    ELSE <<sorted[1]>> \o insertAscending(Tail(sorted), x)

\* [...arr].sort((a, b) => a - b)
sortAscending(arr) ==
    LET F[i \in 0..Len(arr)] ==
            IF i = 0 THEN <<>> ELSE insertAscending(F[i - 1], arr[i])
    IN  F[Len(arr)]

\* a variant that rounds down: Math.floor((percentile / 100) * n)
percentileIndexFloor(percentile, n) == (percentile * n) \div 100

\* Math.ceil((percentile / 100) * n) - 1, for a whole percentile, on the doubles
percentileIndexOf(percentile, n) ==
    doubleCeil(doubleMul(doubleOfHundredths(percentile), doubleOfInt(n))) - 1

\* the percentile calculateMetrics asks for
MedianPercentile == 50

\* the values of that expression for the median of the lists a batch can give,
\* computed once
medianIndexes == [n \in 0..(MaxCases + MaxBatch) |-> percentileIndexOf(MedianPercentile, n)]

percentileIndex(percentile, n) ==
    IF percentile = MedianPercentile /\ n \in DOMAIN medianIndexes THEN medianIndexes[n]
    ELSE percentileIndexOf(percentile, n)

\* getPercentile(arr, percentile): the value it returns (undefined when the index is
\* outside the array) and the caller's array as the call leaves it
getPercentile(arr, percentile) ==
    LET sorted == sortAscending(arr)
        idx == percentileIndex(percentile, Len(sorted))
    IN  [value |-> IF idx >= 0 /\ idx < Len(sorted) THEN FracInt(sorted[idx + 1]) ELSE Undefined,
         arr |-> arr]

IsFinished(r) == r.isFinished
IsSuccess(r) == r.isSuccess

\* results.filter(r => r.isFinished)
finishedResults(list) == SelectSeq(list, IsFinished)

\* list.reduce((a, b) => a + b, 0)
RECURSIVE Sum(_)
Sum(list) == IF Len(list) = 0 THEN 0 ELSE list[1] + Sum(Tail(list))

\* Math.min(...list), Math.max(...list)
RECURSIVE MinOf(_), MaxOf(_)
MinOf(list) ==
    IF Len(list) = 0 THEN Infinity
    ELSE LET rest == MinOf(Tail(list))
         IN  IF rest.den = 0 \/ list[1] <= rest.num THEN FracInt(list[1]) ELSE rest
MaxOf(list) ==
    IF Len(list) = 0 THEN NegInfinity
    ELSE LET rest == MaxOf(Tail(list))
         IN  IF rest.den = 0 \/ list[1] >= rest.num THEN FracInt(list[1]) ELSE rest

\* fieldCounts after result.matchedFields.forEach(...) from field j on; fieldCounts is
\* the Map as a list of [field, success, total] in insertion order
RECURSIVE countFields(_, _, _, _)
countFields(fieldCounts, fields, success, j) ==
    IF j > Len(fields) THEN fieldCounts
    ELSE LET field == fields[j]
             at == {i \in 1..Len(fieldCounts) : fieldCounts[i].field = field}
             inc == IF success THEN 1 ELSE 0
             next == IF at = {}
                     THEN Append(fieldCounts, [field |-> field, success |-> inc, total |-> 1])
                     ELSE [i \in 1..Len(fieldCounts) |->
                             IF i \in at
                             THEN [field |-> field,
                                   success |-> fieldCounts[i].success + inc,
                                   total |-> fieldCounts[i].total + 1]
                             ELSE fieldCounts[i]]
         IN  countFields(next, fields, success, j + 1)

\* a variant that tracks the fields of passing cases only
buildFieldCountsOfPassing(list) ==
    LET F[i \in 0..Len(list)] ==
            IF i = 0 THEN <<>>
            ELSE IF list[i].matchedFields.def /\ list[i].isSuccess
                 THEN countFields(F[i - 1], list[i].matchedFields.v, list[i].isSuccess, 1)
                 ELSE F[i - 1]
    IN  F[Len(list)]

\* fieldCounts after results.forEach(...)
buildFieldCounts(list) ==
    LET F[i \in 0..Len(list)] ==
            IF i = 0 THEN <<>>
            ELSE IF list[i].matchedFields.def
                 THEN countFields(F[i - 1], list[i].matchedFields.v, list[i].isSuccess, 1)
                 ELSE F[i - 1]
    IN  F[Len(list)]

\* Object.fromEntries(entries): own properties in the order an object keeps them
objectFromEntries(entries) ==
    LET F[i \in 0..Len(entries)] ==
            IF i = 0 THEN <<>> ELSE setProperty(F[i - 1], entries[i].k, entries[i].val)
    IN  F[Len(entries)]

\* insert x into the list sorted by descending failureRate, after its equals (the
\* sort is stable)
RECURSIVE insertDescending(_, _)
insertDescending(sorted, x) ==
    IF Len(sorted) = 0 THEN <<x>>
    ELSE IF FracLess(sorted[1].failureRate, x.failureRate) THEN <<x>> \o sorted
    ELSE <<sorted[1]>> \o insertDescending(Tail(sorted), x)

\* a variant that leaves the fields in the order the Map lists them
sortByFailureRateSkipped(list) == list

\* list.sort((a, b) => b.failureRate - a.failureRate)
sortByFailureRate(list) ==
    LET F[i \in 0..Len(list)] ==
            IF i = 0 THEN <<>> ELSE insertDescending(F[i - 1], list[i])
    IN  F[Len(list)]

\* .slice(0, 5)
TopFailedFields == 5

\* Array.from(fieldCounts.entries()).map(...).sort(...).slice(0, 5)
mostFailedFieldsOf(fieldCounts) ==
    LET mapped == [i \in 1..Len(fieldCounts) |->
                      [field |-> fieldCounts[i].field,
                       failureRate |-> OneMinus(Frac(fieldCounts[i].success,
                                                     fieldCounts[i].total))]]
        sorted == sortByFailureRate(mapped)
    IN  SubSeq(sorted, 1, Min(TopFailedFields, Len(sorted)))

\* (acc[key] || 0) + 1 on the accumulator {}: an inherited function is truthy and
\* `+ 1` appends "1" to its source text, as it does to a string
S_function == <<"f", "u", "n", "c", "t", "i", "o", "n", " ">>
S_native == <<"(", ")", " ", "{", " ", "[", "n", "a", "t", "i", "v", "e", " ",
              "c", "o", "d", "e", "]", " ", "}">>
S_objectObject == <<"[", "o", "b", "j", "e", "c", "t", " ", "O", "b", "j", "e", "c", "t", "]">>
\* old is what acc[key] can hold: undefined, a count, a text, an inherited function
\* or, under __proto__, the prototype object
plusOne(old) ==
    CASE Falsy(old) -> JInt(1)
      [] ~Falsy(old) /\ old.t = "number" -> JNum(old.v + 100)
      [] ~Falsy(old) /\ old.t = "string" -> JStr(old.v \o <<"1">>)
      [] old.t = "function" -> JStr(S_function \o old.name \o S_native \o <<"1">>)
      [] old.t = "object" -> JStr(S_objectObject \o <<"1">>)

\* acc[key] = val for a val that is a number or a string: under __proto__ the
\* setter of Object.prototype takes the assignment and ignores such a value
assignProperty(entries, key, val) ==
    IF key = S_proto THEN entries ELSE setProperty(entries, key, val)

\* the accumulator after result.differences.forEach(...) from difference j on
RECURSIVE countKeys(_, _, _)
countKeys(acc, differences, j) ==
    IF j > Len(differences) THEN acc
    ELSE LET key == differences[j].key
             obj == JObj("acc", acc)
         IN  countKeys(assignProperty(acc, key, plusOne(GetProperty(obj, key))),
                       differences, j + 1)

\* results.filter(r => !r.isSuccess && r.differences).reduce(...)
buildErrorDistribution(list) ==
    LET F[i \in 0..Len(list)] ==
            IF i = 0 THEN <<>>
            ELSE IF ~list[i].isSuccess /\ list[i].differences.def
                 THEN countKeys(F[i - 1], list[i].differences.v, 1)
                 ELSE F[i - 1]
    IN  F[Len(list)]

\* a variant of the f1Score expression that divides by the sum of the counts
f1ScoreOfCounts(successfulTests, totalTests) ==
    LET count == doubleOfInt(successfulTests)
        ratio == doubleDiv(count, doubleOfInt(totalTests))
    IN  doubleDiv(doubleMul(doubleMul(doubleOfInt(2), ratio), ratio), doubleAdd(count, count))

\* (2 * (successfulTests / totalTests) * (successfulTests / totalTests)) /
\*     ((successfulTests / totalTests) + (successfulTests / totalTests))
f1ScoreOf(successfulTests, totalTests) ==
    LET ratio == doubleDiv(doubleOfInt(successfulTests), doubleOfInt(totalTests))
    IN  doubleDiv(doubleMul(doubleMul(doubleOfInt(2), ratio), ratio), doubleAdd(ratio, ratio))

\* the values of that expression for the counts a batch can have, computed once
f1Scores ==
    [totalTests \in 1..(MaxCases + MaxBatch) |->
        [successfulTests \in 1..totalTests |-> f1ScoreOf(successfulTests, totalTests)]]

\* calculateMetrics(results): the MetricsResult, and the local `times` as the
\* getPercentile call leaves it
calculateMetrics(list) ==
    LET totalTests == Len(list)
        successfulTests == Len(SelectSeq(list, IsSuccess))
        failedTests == totalTests - successfulTests
        finished == finishedResults(list)
        timesList == [i \in 1..Len(finished) |-> finished[i].timeElapsed]
        costs == [i \in 1..Len(finished) |-> finished[i].cost]
        fieldCounts == buildFieldCounts(list)
        fieldSuccessRates ==
            objectFromEntries([i \in 1..Len(fieldCounts) |->
                Entry(fieldCounts[i].field, Frac(fieldCounts[i].success, fieldCounts[i].total))])
        mostFailedFields == mostFailedFieldsOf(fieldCounts)
        errorDistribution == buildErrorDistribution(list)
        median == getPercentile(timesList, MedianPercentile)
        successRate == Frac(successfulTests, totalTests)
    IN  [metrics |->
           [totalTests |-> totalTests,
            successfulTests |-> successfulTests,
            failedTests |-> failedTests,
            averageTime |-> Frac(Sum(timesList), totalTests),
            minTime |-> MinOf(timesList),
            maxTime |-> MaxOf(timesList),
            medianTime |-> median.value,
            averageCost |-> Frac(Sum(costs), totalTests),
            totalCost |-> Sum(costs),
            costPerSuccess |-> IF successfulTests # 0
                               THEN Frac(Sum(costs), successfulTests) ELSE FracInt(0),
            successRate |-> successRate,
            precision |-> successRate,
            recall |-> successRate,
            f1Score |-> IF successfulTests # 0
                        THEN f1Scores[totalTests][successfulTests]
                        ELSE DoubleZero,
            fieldSuccessRates |-> fieldSuccessRates,
            mostFailedFields |-> mostFailedFields,
            errorDistribution |-> errorDistribution],
         times |-> median.arr]

----------------------------------------------------------------------------
(* Inputs of the single-call specification *)

MaxStrLen == 2
Alphabet == {"a", "b"}

S_cat == <<"c", "a", "t">>
S_hat == <<"h", "a", "t">>
S_abc == <<"a", "b", "c">>
S_xyz == <<"x", "y", "z">>
K_a == <<"a">>
K_b == <<"b">>
K_c == <<"c">>

\* numbers, in hundredths: 0, 0.01, 0.04, -0.04, 0.05, 1, 100, 109, 112, -100.
\* No two of them lie exactly one tolerance apart, where the doubles of the
\* program round and this exact arithmetic does not.
NumSamples == {0, 1, 4, -4, 5, 30, 40, 100, 10000, 10900, 11200, -10000}
StrSamples ==
    UNION {[1..n -> Alphabet] : n \in 0..MaxStrLen} \cup {S_cat, S_hat, S_abc, S_xyz}

LeafSamples ==
    {JNull, JBool(TRUE), JBool(FALSE)}
        \cup {JNum(n) : n \in NumSamples} \cup {JStr(str) : str \in StrSamples}

\* containers, allocated in r
StructSamples(r) ==
    { JArr(r, <<>>),
      JArr(r, <<JInt(1)>>),
      JArr(r, <<JInt(1), JInt(2)>>),
      JArr(r, <<JInt(1), JInt(2), JInt(3)>>),
      JArr(r, <<JBool(TRUE), JStr(S_cat)>>),
      JArr(r, <<JInt(0), JStr(<<>>), JBool(FALSE), JNull, JArr(r, <<>>), JObj(r, <<>>)>>),
      JObj(r, <<>>),
      JObj(r, <<Entry(K_a, JInt(1))>>),
      JObj(r, <<Entry(K_a, JInt(1)), Entry(K_b, JInt(2))>>),
      JObj(r, <<Entry(K_b, JInt(2)), Entry(K_a, JInt(1))>>),
      JObj(r, <<Entry(K_a, JInt(1)), Entry(K_c, JInt(2))>>),
      JObj(r, <<Entry(K_a, JStr(S_cat)), Entry(K_b, JInt(100))>>),
      JObj(r, <<Entry(K_a, JStr(S_hat)), Entry(K_b, JInt(112))>>),
      JObj(r, <<Entry(K_a, JStr(S_xyz)), Entry(K_b, JInt(112))>>),
      JObj(r, <<Entry(K_a, JObj(r, <<Entry(K_b, JInt(1))>>))>>),
      JObj(r, <<Entry(K_a, JObj(r, <<Entry(K_b, JInt(2))>>))>>),
      JObj(r, <<Entry(<<"0">>, JInt(1)), Entry(<<"1">>, JInt(2))>>),
      JObj(r, <<Entry(S_length, JInt(2))>>),
      JObj(r, <<Entry(S_toString, JInt(1))>>),
      JObj(r, <<Entry(<<>>, JInt(1))>>),
      JObj(r, <<Entry(<<>>, JInt(2))>>) }

\* the places a pair of values is compared at: the root, an array element, an
\* object value, a nested object value
Contexts == {"root", "element", "value", "nested"}
Wrap(ctx, x, r) ==
    CASE ctx = "root" -> x
      [] ctx = "element" -> JArr(r, <<x>>)
      [] ctx = "value" -> JObj(r, <<Entry(K_a, x)>>)
      [] ctx = "nested" -> JObj(r, <<Entry(K_a, JObj(r, <<Entry(K_b, x)>>))>>)

\* JSON texts handed over as strings
Quoted(str) == <<"\"">> \o str \o <<"\"">>
TextSamples ==
    { S_cat,
      Quoted(S_cat),
      Quoted(S_hat),
      Quoted(S_xyz),
      <<>>,
      S_null,
      <<"1", "2">>,
      <<"0", ".", "0", "5">>,
      <<"{", "\"", "a", "\"", ":", "1">>,
      <<"{", "\"", "a", "\"", ":", "1", "}">>,
      <<"{", "\"", "a", "\"", ":", " ", "1", ",", "\"", "b", "\"", ":", "2", "}">>,
      <<"[", "1", ",", "2", "]">>,
      <<"[", "1", ",", "]">> }

\* (expected, actual) pairs: an argument is a parsed value or a string; a container
\* passed as both arguments is one reference, otherwise the two are distinct
InputPairs ==
    {<<Wrap(ctx, x, RefExpected), Wrap(ctx, y, RefActual)>> :
        ctx \in Contexts, x \in LeafSamples, y \in LeafSamples}
    \cup {<<Wrap(ctx, x, RefExpected), Wrap(ctx, y, RefActual)>> :
        ctx \in {"root", "value"}, x \in StructSamples(RefExpected), y \in StructSamples(RefActual)}
    \cup {<<x, x>> : x \in StructSamples(RefExpected)}
    \cup {<<JStr(x), JStr(y)>> : x \in TextSamples, y \in TextSamples}
    \cup {<<JStr(x), y>> : x \in TextSamples, y \in StructSamples(RefActual)}
    \cup {<<x, JStr(y)>> : x \in StructSamples(RefExpected), y \in TextSamples}

S_question == <<"q">>

----------------------------------------------------------------------------
(* Inputs of the test-command specification *)

S_amount == <<"a", "m", "o", "u", "n", "t">>

\* finalTestCases: the user input and the expected response of each case
CasePool ==
    << [input |-> <<"q", "1">>,
        expectedResponse |-> JObj(RefExpected, <<Entry(S_amount, JInt(100))>>)],
       [input |-> <<"q", "2">>,
        expectedResponse |-> JObj(RefExpected, <<Entry(S_amount, JInt(100)),
                                                Entry(K_a, JStr(S_cat))>>)] >>
CaseList(n) == [i \in 1..n |-> CasePool[((i - 1) % Len(CasePool)) + 1]]

\* what providerInstance.run resolves to: result.data and result.metrics.estimatedCost
ProviderRuns ==
    { [data |-> JObj(RefActual, <<Entry(S_amount, JInt(100))>>), estimatedCost |-> 1],
      [data |-> JObj(RefActual, <<Entry(S_amount, JInt(250)),
                                  Entry(K_a, JStr(S_hat))>>),
       estimatedCost |-> 3] }

\* Date.now() - startTime, in ms
ElapsedSamples == {10, 20}

----------------------------------------------------------------------------
(* State machine *)

NoResult == None
NoMetrics == None

\* a single evaluateTestCase call on chosen arguments
Init ==
    /\ nodeVersion \in NodeVersions
    /\ pc = "call"
    /\ \E p \in InputPairs : expected = p[1] /\ actual = p[2]
    /\ timeElapsed = 10
    /\ cost = 1
    /\ input = S_question
    /\ testResult = NoResult
    /\ comparison = NoResult
    /\ testCases = <<>>
    /\ index = 0
    /\ results = <<>>
    /\ times = <<>>
    /\ metrics = NoMetrics
    /\ metricsCalls = 0
    /\ verbose = FALSE
    /\ errorLog = <<>>

EvaluateTestCase ==
    /\ pc = "call"
    /\ comparison' = compareResponses(expected, actual)
    /\ testResult' = evaluateTestCase(expected, actual, timeElapsed, cost, input)
    /\ pc' = "returned"
    /\ UNCHANGED <<nodeVersion, expected, actual, timeElapsed, cost, input, testCases, index,
                   results, times, metrics, metricsCalls, verbose, errorLog>>

Next == EvaluateTestCase

Spec == Init /\ [][Next]_vars

\* The test command's run over finalTestCases.  The loop body is one async
\* function: it gives up control at its three awaits (the provider call, the
\* evaluateTestCase call, the delay between requests), and pc names the await
\* it is suspended at ("provider", "evaluate", "delay"), the top of the loop
\* ("loop") or the end of the run ("done").
InitRun ==
    /\ nodeVersion \in NodeVersions
    /\ pc = "loop"
    /\ \E n \in 1..MaxCases : testCases = CaseList(n)
    /\ index = 0
    /\ results = <<>>
    /\ expected = Undefined
    /\ actual = Undefined
    /\ timeElapsed = 0
    /\ cost = 0
    /\ input = <<>>
    /\ testResult = NoResult
    /\ comparison = NoResult
    /\ times = <<>>
    /\ metrics = NoMetrics
    /\ metricsCalls = 0
    /\ verbose \in BOOLEAN
    /\ errorLog = <<>>

\* an iteration starts: the progress bar is written and the provider is called
StartCase ==
    /\ pc = "loop"
    /\ index < Len(testCases)
    /\ pc' = "provider"
    /\ UNCHANGED <<nodeVersion, expected, actual, timeElapsed, cost, input, testResult, comparison,
                   testCases, index, results, times, metrics, metricsCalls, verbose,
                   errorLog>>

\* the provider call resolves: timeElapsed is taken and evaluateTestCase is called
\* on the case's expected response and result.data; its promise is awaited
ProviderResolves ==
    /\ pc = "provider"
    /\ \E run \in ProviderRuns, elapsed \in ElapsedSamples :
        LET testCase == testCases[index + 1]
        IN  /\ expected' = testCase.expectedResponse
            /\ actual' = run.data
            /\ timeElapsed' = elapsed
            /\ cost' = run.estimatedCost
            /\ input' = testCase.input
            /\ comparison' = compareResponses(testCase.expectedResponse, run.data)
            /\ testResult' = evaluateTestCase(testCase.expectedResponse, run.data, elapsed,
                                              run.estimatedCost, testCase.input)
    /\ pc' = "evaluate"
    /\ UNCHANGED <<nodeVersion, testCases, index, results, times, metrics, metricsCalls, verbose,
                   errorLog>>

\* a result for a thrown case that keeps the fields of a finished one
unfinishedResultMarkedFinished(testCase) ==
    [input |-> testCase.input,
     expectedResponse |-> testCase.expectedResponse,
     actualResponse |-> JNull,
     timeElapsed |-> 0,
     cost |-> 0,
     isFinished |-> TRUE,
     isSuccess |-> FALSE,
     differences |-> None,
     matchedFields |-> Some(<<>>),
     missingFields |-> None,
     extraFields |-> None]

\* the TestResult the catch block pushes
unfinishedResult(testCase) ==
    [input |-> testCase.input,
     expectedResponse |-> testCase.expectedResponse,
     actualResponse |-> JNull,
     timeElapsed |-> 0,
     cost |-> 0,
     isFinished |-> FALSE,
     isSuccess |-> FALSE,
     differences |-> None,
     matchedFields |-> None,
     missingFields |-> None,
     extraFields |-> None]

\* a catch block that reports the error and pushes nothing
CaseThrowsUnrecorded ==
    /\ pc = "provider"
    /\ errorLog' = Append(errorLog, index + 1)
    /\ index' = index + 1
    /\ pc' = "loop"
    /\ UNCHANGED <<nodeVersion, expected, actual, timeElapsed, cost, input, testResult, comparison,
                   testCases, results, times, metrics, metricsCalls, verbose>>

\* the provider call rejects: the catch block reports the error and pushes an
\* unfinished result, and the loop goes on
CaseThrows ==
    /\ pc = "provider"
    /\ results' = Append(results, unfinishedResult(testCases[index + 1]))
    /\ errorLog' = Append(errorLog, index + 1)
    /\ index' = index + 1
    /\ pc' = "loop"
    /\ UNCHANGED <<nodeVersion, expected, actual, timeElapsed, cost, input, testResult, comparison,
                   testCases, times, metrics, metricsCalls, verbose>>

\* evaluateTestCase's promise resolves: the result is pushed, the verbose report
\* is printed, and the delay is awaited unless this was the last case
RecordResult ==
    /\ pc = "evaluate"
    /\ results' = Append(results, testResult)
    /\ IF index < Len(testCases) - 1
       THEN pc' = "delay" /\ index' = index
       ELSE pc' = "loop" /\ index' = index + 1
    /\ UNCHANGED <<nodeVersion, expected, actual, timeElapsed, cost, input, testResult, comparison,
                   testCases, times, metrics, metricsCalls, verbose, errorLog>>

\* the same continuation when table(), called by the verbose report of a result
\* that has differences, throws: results.push(testResult) has run, and the catch
\* block reports the error and pushes its own result for the case
ReportThrows ==
    /\ pc = "evaluate"
    /\ verbose
    /\ testResult.differences.def
    /\ Len(testResult.differences.v) > 0
    /\ results' = Append(Append(results, testResult), unfinishedResult(testCases[index + 1]))
    /\ errorLog' = Append(errorLog, index + 1)
    /\ index' = index + 1
    /\ pc' = "loop"
    /\ UNCHANGED <<nodeVersion, expected, actual, timeElapsed, cost, input, testResult, comparison,
                   testCases, times, metrics, metricsCalls, verbose>>

\* the delay between two requests ends and the iteration with it
DelayEnds ==
    /\ pc = "delay"
    /\ index' = index + 1
    /\ pc' = "loop"
    /\ UNCHANGED <<nodeVersion, expected, actual, timeElapsed, cost, input, testResult, comparison,
                   testCases, results, times, metrics, metricsCalls, verbose, errorLog>>

\* after the loop
CalculateMetrics ==
    /\ pc = "loop"
    /\ index = Len(testCases)
    /\ LET m == calculateMetrics(results)
       IN  /\ metrics' = Some(m.metrics)
           /\ times' = m.times
    /\ metricsCalls' = metricsCalls + 1
    /\ pc' = "done"
    /\ UNCHANGED <<nodeVersion, expected, actual, timeElapsed, cost, input, testResult, comparison,
                   testCases, index, results, verbose, errorLog>>

NextRun ==
    \/ StartCase
    \/ ProviderResolves
    \/ CaseThrows
    \/ RecordResult
    \/ ReportThrows
    \/ DelayEnds
    \/ CalculateMetrics

SpecRun == InitRun /\ [][NextRun]_vars

----------------------------------------------------------------------------
(* calculateMetrics on a batch of TestResults *)

K_d == <<"d">>
K_e == <<"e">>
K_g == <<"g">>
K_x == <<"x">>
K_y == <<"y">>
K_id == <<"i", "d">>

\* (expected, actual) of the cases a batch is made of
SixFields(r, amount) ==
    JObj(r, <<Entry(K_a, JInt(1)), Entry(K_b, JInt(1)), Entry(K_c, JInt(1)),
              Entry(K_d, JInt(1)), Entry(K_e, JInt(1)), Entry(S_amount, JInt(amount))>>)
NestedIds(r, first, second, flag) ==
    JObj(r, <<Entry(S_amount, JInt(100)),
              Entry(K_x, JObj(r, <<Entry(K_id, JInt(first))>>)),
              Entry(K_y, JArr(r, <<JObj(r, <<Entry(K_id, JInt(second))>>)>>)),
              Entry(S_toString, JBool(flag))>>)

\* a case that passes, with a difference (amount 100 against 250)
PassingResult ==
    evaluateTestCase(SixFields(RefExpected, 100), SixFields(RefActual, 250), 10, 1,
                     <<"q", "1">>)
\* a case that fails on its last key, after two differences that let it go on
NestedFailResult ==
    evaluateTestCase(NestedIds(RefExpected, 1, 5, TRUE), NestedIds(RefActual, 2, 6, FALSE),
                     20, 2, <<"q", "3">>)
\* a case over the same six fields, listed in the opposite order, that fails on
\* an extra key
SixFieldsReversed(r, extra) ==
    JObj(r, <<Entry(S_amount, JInt(100)), Entry(K_e, JInt(1)), Entry(K_d, JInt(1)),
              Entry(K_c, JInt(1)), Entry(K_b, JInt(1)), Entry(K_a, JInt(1))>> \o extra)
ShapeFailResult ==
    evaluateTestCase(SixFieldsReversed(RefExpected, <<>>),
                     SixFieldsReversed(RefActual, <<Entry(K_g, JInt(1))>>),
                     30, 1, <<"q", "4">>)
\* a case whose provider call threw
ThrownResult ==
    unfinishedResult([input |-> <<"q", "5">>,
                      expectedResponse |-> JObj(RefExpected, <<Entry(S_amount, JInt(100))>>)])

ResultPool == {PassingResult, NestedFailResult, ShapeFailResult, ThrownResult}
\* the elements of the batches longer than MaxMixed: a passing and a failing case
LongBatchPool == {PassingResult, NestedFailResult}

\* a call of calculateMetrics on a chosen batch
InitBatch ==
    /\ nodeVersion \in NodeVersions
    /\ pc = "batch"
    /\ \E pool \in {ResultPool}, long \in {LongBatchPool}, n \in 0..MaxBatch :
           results \in [1..n -> (IF n <= MaxMixed THEN pool ELSE long)]
    /\ testCases = <<>>
    /\ index = 0
    /\ expected = Undefined
    /\ actual = Undefined
    /\ timeElapsed = 0
    /\ cost = 0
    /\ input = <<>>
    /\ testResult = NoResult
    /\ comparison = NoResult
    /\ times = <<>>
    /\ metrics = NoMetrics
    /\ metricsCalls = 0
    /\ verbose = FALSE
    /\ errorLog = <<>>

CalculateMetricsOfBatch ==
    /\ pc = "batch"
    /\ LET m == calculateMetrics(results)
       IN  /\ metrics' = Some(m.metrics)
           /\ times' = m.times
    /\ metricsCalls' = metricsCalls + 1
    /\ pc' = "done"
    /\ UNCHANGED <<nodeVersion, expected, actual, timeElapsed, cost, input, testResult, comparison,
                   testCases, index, results, verbose, errorLog>>

NextBatch == CalculateMetricsOfBatch

SpecBatch == InitBatch /\ [][NextBatch]_vars

----------------------------------------------------------------------------
(* Properties *)

Returned == pc = "returned"
Done == pc = "done"

\* the two values the comparator receives
ParsedExpected == parseArgument(expected, RefExpected)
ParsedActual == parseArgument(actual, RefActual)
BothParsed == ParsedExpected.ok /\ ParsedActual.ok

\* The pair of values compared at the innermost location reached through
\* containers that hold a single entry under the same key on both sides.
RECURSIVE Focus(_, _, _)
Focus(e, a, path) ==
    IF e.t = "array" /\ a.t = "array" /\ e.ref # a.ref /\ Len(e.v) = 1 /\ Len(a.v) = 1
    THEN Focus(e.v[1], a.v[1], Append(path, <<"0">>))
    ELSE IF /\ e.t = "object" /\ a.t = "object" /\ e.ref # a.ref
            /\ Len(e.v) = 1 /\ Len(a.v) = 1
            /\ e.v[1].k = a.v[1].k /\ e.v[1].k # <<>>
         THEN Focus(e.v[1].val, a.v[1].val, Append(path, e.v[1].k))
    ELSE [e |-> e, a |-> a, path |-> path]
CurrentFocus == Focus(ParsedExpected.val, ParsedActual.val, <<>>)

\* |x - y| <= max(0.1, 0.1 * max(|x|, |y|)), x and y in hundredths
\* |x - y| <= max(0.1, 0.1 * max(|x|, |y|)) for two numbers x, y given in hundredths,
\* evaluated on the doubles the program holds for them
Tenth == doubleOfHundredths(10)
Magnitude(x) == doubleOfHundredths(Abs(x))
Gap(x, y) ==
    IF (x < 0) = (y < 0) THEN doubleDistance(Magnitude(x), Magnitude(y))
    ELSE doubleAdd(Magnitude(x), Magnitude(y))
WithinTolerance(x, y) ==
    doubleLeq(Gap(x, y),
              doubleMax(Tenth, doubleMul(Tenth, doubleMax(Magnitude(x), Magnitude(y)))))

\* 1 - min(|x - y| / max(|x|, |y|), 1), for x, y not both 0
SimilarityOfNumbers(x, y) ==
    IF Abs(x - y) >= Max(Abs(x), Abs(y)) THEN FracInt(0)
    ELSE Frac(Max(Abs(x), Abs(y)) - Abs(x - y), Max(Abs(x), Abs(y)))

\* the Levenshtein distance, by its defining recurrence on prefixes
RECURSIVE EditDistance(_, _)
EditDistance(x, y) ==
    IF Len(x) = 0 THEN Len(y)
    ELSE IF Len(y) = 0 THEN Len(x)
    ELSE LET x1 == SubSeq(x, 1, Len(x) - 1)
             y1 == SubSeq(y, 1, Len(y) - 1)
         IN  IF x[Len(x)] = y[Len(y)] THEN EditDistance(x1, y1)
             ELSE 1 + Min3(EditDistance(x1, y), EditDistance(x, y1), EditDistance(x1, y1))

OwnKeySet(x) == {x.v[i].k : i \in 1..Len(x.v)}

\* C1: comparing a value with itself through evaluateTestCase succeeds with no
\* differences, whatever JSON-compatible value it is (a string such as "cat" included).
C1_IdentityMatches ==
    (Returned /\ actual = expected)
        => (testResult.isSuccess /\ ~testResult.differences.def)

\* C2: when expected or actual is a string that is not valid JSON, the result is a
\* failure carrying exactly one difference, keyed parse_error and holding the
\* original arguments, and no matched, missing or extra fields.
InvalidJSONText(x, r) == x.t = "string" /\ ~JSONparse(x.v, r).ok
C2_ParseErrorIsReported ==
    (Returned /\ (InvalidJSONText(expected, RefExpected) \/ InvalidJSONText(actual, RefActual)))
        => /\ ~testResult.isSuccess
           /\ testResult.differences.def
           /\ Len(testResult.differences.v) = 1
           /\ testResult.differences.v[1].key = S_parse_error
           /\ testResult.differences.v[1].expected = expected
           /\ testResult.differences.v[1].actual = actual
           /\ ~testResult.matchedFields.def
           /\ ~testResult.missingFields.def
           /\ ~testResult.extraFields.def
C2_Witness ==
    /\ Returned
    /\ ~InvalidJSONText(expected, RefExpected)
    /\ InvalidJSONText(actual, RefActual)
    /\ testResult.differences.def
    /\ testResult.differences.v[1].key = S_parse_error

\* C3: the TestResult is finished, its verdict is the comparison's isMatch and its
\* differences and field sets are the comparison's, unchanged.
C3_VerdictIsTheComparison ==
    Returned
        => /\ testResult.isFinished
           /\ testResult.isSuccess = comparison.isMatch
           /\ testResult.differences = comparison.differences
           /\ testResult.matchedFields = comparison.matchedFields
           /\ testResult.missingFields = comparison.missingFields
           /\ testResult.extraFields = comparison.extraFields
C3_Witness ==
    /\ Returned
    /\ comparison.isMatch
    /\ comparison.differences.def
    /\ testResult.isSuccess
    /\ testResult.differences.def

\* C4: two numbers that are not within tolerance do not match.
C4_NotCloseNumbersFail ==
    (/\ Returned
     /\ expected.t = "number" /\ actual.t = "number"
     /\ ~WithinTolerance(expected.v, actual.v))
        => ~testResult.isSuccess

\* C5: two numbers that are within tolerance match and no difference is recorded.
C5_CloseNumbersMatch ==
    (/\ Returned
     /\ expected.t = "number" /\ actual.t = "number"
     /\ WithinTolerance(expected.v, actual.v))
        => (testResult.isSuccess /\ ~testResult.differences.def)

\* C6: for two different numbers that reach the number rule (neither is 0), at any
\* location, the comparison passes exactly when similarity > 0, where
\* similarity = 1 - min(|a-b| / max(|a|,|b|), 1), and one difference carrying that
\* similarity is recorded exactly when the pair is not within tolerance.
NumberRuleReached ==
    /\ Returned /\ BothParsed
    /\ CurrentFocus.e.t = "number" /\ CurrentFocus.a.t = "number"
    /\ CurrentFocus.e.v # 0 /\ CurrentFocus.a.v # 0
    /\ CurrentFocus.e.v # CurrentFocus.a.v
C6_NumberPassIsSimilarity ==
    NumberRuleReached
        => LET f == CurrentFocus
               similarity == SimilarityOfNumbers(f.e.v, f.a.v)
           IN  /\ testResult.isSuccess = FracLess(FracInt(0), similarity)
               /\ testResult.differences =
                     IF WithinTolerance(f.e.v, f.a.v) THEN None
                     ELSE Some(<<Difference(f.path, f.e, f.a, similarity)>>)
C6_Witness ==
    /\ NumberRuleReached
    /\ ~WithinTolerance(CurrentFocus.e.v, CurrentFocus.a.v)
    /\ Len(CurrentFocus.path) > 0
    /\ testResult.isSuccess
    /\ testResult.differences.def

\* C7: for two different non-empty strings at any location,
\* similarity = 1 - Levenshtein(a,b) / max(len(a), len(b)); one difference carrying it
\* is recorded exactly when similarity < 1 and the pair passes exactly when
\* similarity > 0.
StringRuleReached ==
    /\ Returned /\ BothParsed
    /\ CurrentFocus.e.t = "string" /\ CurrentFocus.a.t = "string"
    /\ CurrentFocus.e.v # <<>> /\ CurrentFocus.a.v # <<>>
    /\ CurrentFocus.e.v # CurrentFocus.a.v
C7_StringPassIsSimilarity ==
    StringRuleReached
        => LET f == CurrentFocus
               similarity == OneMinus(Frac(EditDistance(f.e.v, f.a.v),
                                           Max(Len(f.e.v), Len(f.a.v))))
           IN  /\ testResult.isSuccess = FracLess(FracInt(0), similarity)
               /\ testResult.differences =
                     IF FracLess(similarity, FracInt(1))
                     THEN Some(<<Difference(f.path, f.e, f.a, similarity)>>)
                     ELSE None
C7_Witness ==
    /\ StringRuleReached
    /\ CurrentFocus.e.v = S_cat /\ CurrentFocus.a.v = S_hat
    /\ testResult.isSuccess
    /\ testResult.differences.def
    /\ testResult.differences.v[1].similarity = [num |-> 2, den |-> 3]

\* C8: two arrays of different lengths, or two objects with different key sets, fail
\* with exactly one summarizing difference at the container's path, and nothing
\* inside the container is compared or reported.
ArrayLengthsDiffer(e, a) == e.t = "array" /\ a.t = "array" /\ Len(e.v) # Len(a.v)
ObjectKeySetsDiffer(e, a) == e.t = "object" /\ a.t = "object" /\ OwnKeySet(e) # OwnKeySet(a)
ShapeSummary(f) ==
    IF f.e.t = "array"
    THEN Difference(f.path, arrayPlaceholder(Len(f.e.v)), arrayPlaceholder(Len(f.a.v)),
                    Frac(Min(Len(f.e.v), Len(f.a.v)), Max(Len(f.e.v), Len(f.a.v))))
    ELSE Difference(f.path, objectPlaceholder(ObjectKeys(f.e)), objectPlaceholder(ObjectKeys(f.a)),
                    Frac(Len(f.e.v) - Cardinality(OwnKeySet(f.e) \ OwnKeySet(f.a)),
                         Max(Len(f.e.v), Len(f.a.v))))
C8_ShapeMismatchIsSummarized ==
    (/\ Returned /\ BothParsed
     /\ \/ ArrayLengthsDiffer(CurrentFocus.e, CurrentFocus.a)
        \/ ObjectKeySetsDiffer(CurrentFocus.e, CurrentFocus.a))
        => /\ ~testResult.isSuccess
           /\ testResult.differences = Some(<<ShapeSummary(CurrentFocus)>>)

\* the finished cases of the batch
FinishedCases == {i \in 1..Len(results) : results[i].isFinished}
RECURSIVE FinishedTimeSum(_), FinishedCostSum(_)
FinishedTimeSum(n) ==
    IF n = 0 THEN 0
    ELSE FinishedTimeSum(n - 1) + (IF results[n].isFinished THEN results[n].timeElapsed ELSE 0)
FinishedCostSum(n) ==
    IF n = 0 THEN 0
    ELSE FinishedCostSum(n - 1) + (IF results[n].isFinished THEN results[n].cost ELSE 0)

\* C9: averageTime and averageCost are the sums over the finished cases divided by
\* the number of finished cases.
C9_AveragesOverFinishedCases ==
    (Done /\ FinishedCases # {})
        => /\ metrics.v.averageTime
                = Frac(FinishedTimeSum(Len(results)), Cardinality(FinishedCases))
           /\ metrics.v.averageCost
                = Frac(FinishedCostSum(Len(results)), Cardinality(FinishedCases))

\* C10: medianTime is the nearest-rank 50th percentile of the finished cases' times
\* (the time of rank ceil(n/2) in ascending order: an element of the list, the lower
\* median for even n), and calculateMetrics leaves its list of times in batch order.
MedianRank == (Cardinality(FinishedCases) + 1) \div 2
IsNearestRankMedian(m) ==
    /\ \E i \in FinishedCases : results[i].timeElapsed = m
    /\ Cardinality({i \in FinishedCases : results[i].timeElapsed < m}) < MedianRank
    /\ Cardinality({i \in FinishedCases : results[i].timeElapsed <= m}) >= MedianRank
C10_MedianIsNearestRank ==
    (Done /\ FinishedCases # {})
        => /\ metrics.v.medianTime.den = 1
           /\ IsNearestRankMedian(metrics.v.medianTime.num)
           /\ Len(times) = Cardinality(FinishedCases)
           /\ \A k \in 1..Len(times) :
                \E i \in FinishedCases :
                    /\ Cardinality({j \in FinishedCases : j <= i}) = k
                    /\ times[k] = results[i].timeElapsed
C10_Witness ==
    /\ Done
    /\ Len(results) = 4
    /\ times = <<20, 10, 20, 10>>
    /\ metrics.v.medianTime = FracInt(10)

----------------------------------------------------------------------------
(* Batch metrics *)

\* the positions of the own property k in an object's entries
EntriesAt(entries, k) == {i \in 1..Len(entries) : entries[i].k = k}
EntryValue(entries, k) == entries[CHOOSE i \in EntriesAt(entries, k) : TRUE].val

\* the cases of the batch whose matchedFields holds the field
CasesTracking(field) ==
    {i \in 1..Len(results) :
        results[i].matchedFields.def /\ Contains(results[i].matchedFields.v, field)}
PassingCasesTracking(field) == {i \in CasesTracking(field) : results[i].isSuccess}

OptionalFields(opt) == IF opt.def THEN {opt.v[j] : j \in 1..Len(opt.v)} ELSE {}
\* every field path any case of the batch mentions
MentionedFields ==
    UNION {OptionalFields(results[i].matchedFields) \cup OptionalFields(results[i].missingFields)
             \cup OptionalFields(results[i].extraFields) : i \in 1..Len(results)}
TrackedFields == {field \in MentionedFields : CasesTracking(field) # {}}

\* C11: fieldSuccessRates has an entry for a field exactly when some case of the
\* batch has it in matchedFields, and the entry is the share of passing cases
\* among the cases that have it, a ratio in [0,1].
C11_FieldSuccessRates ==
    Done =>
        LET rates == metrics.v.fieldSuccessRates
        IN  /\ \A i \in 1..Len(rates) : rates[i].k \in TrackedFields
            /\ \A field \in MentionedFields :
                  /\ Cardinality(EntriesAt(rates, field)) =
                        (IF field \in TrackedFields THEN 1 ELSE 0)
                  /\ field \in TrackedFields =>
                        LET rate == EntryValue(rates, field)
                        IN  /\ rate = Frac(Cardinality(PassingCasesTracking(field)),
                                           Cardinality(CasesTracking(field)))
                            /\ FracLeq(FracInt(0), rate)
                            /\ FracLeq(rate, FracInt(1))

\* one passing and one failing case both tracking "amount", and its rate is 0.5
C11_Witness ==
    /\ Done
    /\ Len(results) = 2
    /\ results[1].isSuccess /\ ~results[2].isSuccess
    /\ CasesTracking(S_amount) = {1, 2}
    /\ EntriesAt(metrics.v.fieldSuccessRates, S_amount) # {}
    /\ EntryValue(metrics.v.fieldSuccessRates, S_amount) = Frac(1, 2)
    /\ EntriesAt(metrics.v.fieldSuccessRates, K_g) = {}

\* successfulTests / totalTests as the double the division yields, for the counts
\* a batch can have
successRatios ==
    [totalTests \in 1..(MaxCases + MaxBatch) |->
        [successfulTests \in 0..totalTests |->
            doubleDiv(doubleOfInt(successfulTests), doubleOfInt(totalTests))]]

\* |x - y| <= 2^y.e: x is y or lies within one unit in the last place of y
WithinOneUlp(x, y) ==
    LET e == Min(x.e, y.e)
        a == natShiftLeft(x.m, x.e - e)
        b == natShiftLeft(y.m, y.e - e)
        distance == IF natLess(a, b) THEN natSub(b, a) ELSE natSub(a, b)
    IN  ~natLess(natShiftLeft(<<1>>, y.e - e), distance)

PassedCount == Cardinality({i \in 1..Len(results) : results[i].isSuccess})

\* the counts and the three equal ratios of a non-empty batch
CountsAndRatios ==
    LET m == metrics.v
    IN  /\ m.totalTests = Len(results)
        /\ m.successfulTests = PassedCount
        /\ m.successfulTests + m.failedTests = m.totalTests
        /\ m.successRate = Frac(PassedCount, Len(results))
        /\ m.precision = m.successRate
        /\ m.recall = m.successRate

\* C12 as stated: for a non-empty batch precision = recall = successRate =
\* successfulTests / totalTests, the two counts add up to totalTests, and f1Score
\* equals successRate (0 when no test passed).
C12_F1EqualsSuccessRate ==
    (Done /\ Len(results) > 0) =>
        /\ CountsAndRatios
        /\ metrics.v.f1Score =
              (IF PassedCount > 0 THEN successRatios[Len(results)][PassedCount]
               ELSE DoubleZero)

\* C12 amended: the same, with f1Score within one unit in the last place of
\* successRate (the rounding of the products and the quotient of the formula),
\* and exactly 0 when no test passed.
C12_F1WithinOneUlp ==
    (Done /\ Len(results) > 0) =>
        /\ CountsAndRatios
        /\ IF PassedCount > 0
           THEN WithinOneUlp(metrics.v.f1Score, successRatios[Len(results)][PassedCount])
           ELSE metrics.v.f1Score = DoubleZero

\* one test of five passed: successRate is 0.2 and f1Score the next double
C12_Witness ==
    /\ Done
    /\ Len(results) = 5
    /\ PassedCount = 1
    /\ metrics.v.successRate = Frac(1, 5)
    /\ metrics.v.f1Score # successRatios[5][1]
    /\ WithinOneUlp(metrics.v.f1Score, successRatios[5][1])

\* the fields mostFailedFields lists
ListedFields == {metrics.v.mostFailedFields[i].field : i \in 1..Len(metrics.v.mostFailedFields)}
FailureRateOf(field) == OneMinus(EntryValue(metrics.v.fieldSuccessRates, field))

\* C13: mostFailedFields lists min(5, number of tracked fields) distinct tracked
\* fields, each with failureRate = 1 - fieldSuccessRates[field], in non-increasing
\* failureRate order, and no tracked field left out fails more often than a
\* listed one.
C13_MostFailedFields ==
    Done =>
        LET top == metrics.v.mostFailedFields
        IN  /\ Len(top) = Min(5, Cardinality(TrackedFields))
            /\ Cardinality(ListedFields) = Len(top)
            /\ \A i \in 1..Len(top) :
                  /\ top[i].field \in TrackedFields
                  /\ top[i].failureRate = FailureRateOf(top[i].field)
            /\ \A i, j \in 1..Len(top) :
                  i < j => FracLeq(top[j].failureRate, top[i].failureRate)
            /\ \A field \in TrackedFields \ ListedFields :
                  \A i \in 1..Len(top) : FracLeq(FailureRateOf(field), top[i].failureRate)

\* more than five tracked fields: five are listed, with different failure rates
\* among them, and a field that fails less often is left out
C13_Witness ==
    /\ Done
    /\ Cardinality(TrackedFields) > 5
    /\ Len(metrics.v.mostFailedFields) = 5
    /\ FracLess(metrics.v.mostFailedFields[5].failureRate,
                metrics.v.mostFailedFields[1].failureRate)
    /\ \E field \in TrackedFields \ ListedFields :
          FracLess(FailureRateOf(field), metrics.v.mostFailedFields[5].failureRate)

\* the keys of the differences any case of the batch carries
DifferenceKeys ==
    UNION {IF results[i].differences.def
           THEN {results[i].differences.v[j].key : j \in 1..Len(results[i].differences.v)}
           ELSE {} : i \in 1..Len(results)}
\* the differences with the key in the case i
KeyedDifferences(i, key) ==
    IF results[i].differences.def
    THEN {j \in 1..Len(results[i].differences.v) : results[i].differences.v[j].key = key}
    ELSE {}
RECURSIVE FailedCount(_, _)
FailedCount(key, n) ==
    IF n = 0 THEN 0
    ELSE FailedCount(key, n - 1)
           + (IF results[n].isSuccess THEN 0 ELSE Cardinality(KeyedDifferences(n, key)))

\* C14: errorDistribution[k] is the number of differences with key k over the
\* failed cases of the batch, whatever their paths; a key without such a
\* difference has no entry, so the differences of passing cases are not counted.
C14_ErrorDistributionCounts ==
    Done =>
        LET dist == metrics.v.errorDistribution
        IN  /\ \A i \in 1..Len(dist) : dist[i].k \in DifferenceKeys
            /\ \A key \in DifferenceKeys :
                  LET count == FailedCount(key, Len(results))
                  IN  IF count = 0 THEN EntriesAt(dist, key) = {}
                      ELSE /\ Cardinality(EntriesAt(dist, key)) = 1
                           /\ EntryValue(dist, key) = JInt(count)

----------------------------------------------------------------------------
(* Field statistics and field paths *)

SeqSet(list) == {list[i] : i \in 1..Len(list)}
\* the flattened key sets of the two parsed values
ExpectedKeySet == SeqSet(getAllKeys(ParsedExpected.val, <<>>))
ActualKeySet == SeqSet(getAllKeys(ParsedActual.val, <<>>))

\* an optional list of fields that holds exactly the set, each field once, and
\* is left out when the set is empty
ListsOrOmits(opt, set) ==
    IF set = {} THEN ~opt.def
    ELSE opt.def /\ SeqSet(opt.v) = set /\ Len(opt.v) = Cardinality(set)

\* C15: without parse error matchedFields is E \cap A, missingFields is E \ A and
\* extraFields is A \ E for the flattened key sets E and A of the two parsed
\* values (missing and extra left out when empty), whatever the verdict.
C15_FieldSetsPartition ==
    (Returned /\ BothParsed) =>
        /\ comparison.matchedFields.def
        /\ SeqSet(comparison.matchedFields.v) = ExpectedKeySet \cap ActualKeySet
        /\ Len(comparison.matchedFields.v) = Cardinality(ExpectedKeySet \cap ActualKeySet)
        /\ ListsOrOmits(comparison.missingFields, ExpectedKeySet \ ActualKeySet)
        /\ ListsOrOmits(comparison.extraFields, ActualKeySet \ ExpectedKeySet)
        /\ testResult.matchedFields = comparison.matchedFields
        /\ testResult.missingFields = comparison.missingFields
        /\ testResult.extraFields = comparison.extraFields

\* a failed comparison with matched, missing and extra fields at once
C15_Witness ==
    /\ Returned
    /\ BothParsed
    /\ ~comparison.isMatch
    /\ Len(comparison.matchedFields.v) > 0
    /\ comparison.missingFields.def
    /\ comparison.extraFields.def

\* the paths made of object keys only: the keys of an object, and under each key that
\* holds an object the paths of that object; an array, like a scalar, has none
RECURSIVE ObjectKeyPaths(_)
ObjectKeyPaths(x) ==
    IF x.t # "object" THEN {}
    ELSE UNION {{x.v[i].k} \cup {x.v[i].k \o <<".">> \o path : path \in ObjectKeyPaths(x.v[i].val)} :
                  i \in 1..Len(x.v)}

ReportedFields ==
    OptionalFields(comparison.matchedFields) \cup OptionalFields(comparison.missingFields)
        \cup OptionalFields(comparison.extraFields)

\* C16: every field path of matchedFields, missingFields and extraFields is built
\* from object keys only; no array index is a path or a path segment, also when the
\* top level of a value is an array.
C16_PathsAreObjectKeys ==
    (Returned /\ BothParsed) =>
        ReportedFields \subseteq
            (ObjectKeyPaths(ParsedExpected.val) \cup ObjectKeyPaths(ParsedActual.val))

----------------------------------------------------------------------------
(* Differences *)

\* the value found by following the path from x
RECURSIVE ValueAt(_, _)
ValueAt(x, path) ==
    IF Len(path) = 0 THEN x
    ELSE IF ~IsContainer(x) THEN Undefined
    ELSE ValueAt(GetProperty(x, path[1]), Tail(path))

\* every prefix of the path of a difference leads into a container of the
\* expected value, through one of its own keys or indices
LeadsThroughExpected(path) ==
    \A n \in 1..Len(path) :
        LET at == ValueAt(ParsedExpected.val, SubSeq(path, 1, n - 1))
        IN  IsContainer(at) /\ path[n] \in SeqSet(ObjectKeys(at))

\* what a difference shows of a side: the value at the path, or a text that
\* stands for it when it is a container
ShowsValue(shown, x) == shown = x \/ (IsContainer(x) /\ shown.t = "string")

ComparatorDifferences == IF comparison.differences.def THEN comparison.differences.v ELSE <<>>

\* C17: a difference of the comparator carries the path from the root to the
\* compared location, whose two values it shows, and its key is the last segment
\* of the path, or "root" when the path is empty.
C17_DifferencePathAndKey ==
    (Returned /\ BothParsed) =>
        \A i \in 1..Len(ComparatorDifferences) :
            LET d == ComparatorDifferences[i]
            IN  /\ LeadsThroughExpected(d.path)
                /\ ShowsValue(d.expected, ValueAt(ParsedExpected.val, d.path))
                /\ ShowsValue(d.actual, ValueAt(ParsedActual.val, d.path))
                /\ d.key = (IF Len(d.path) = 0 THEN S_root ELSE d.path[Len(d.path)])

----------------------------------------------------------------------------
(* Similarity of a difference *)

InUnitInterval(f) == FracLeq(FracInt(0), f) /\ FracLeq(f, FracInt(1))
StrictlyInside(f) == FracLess(FracInt(0), f) /\ FracLess(f, FracInt(1))

\* C18: every difference recorded by the comparator carries a similarity that
\* is a number between 0 and 1, both included; the single difference reported
\* for a failed parse is the only one without a similarity.
C18_SimilarityInUnitInterval ==
    Returned =>
        IF BothParsed
        THEN \A i \in 1..Len(ComparatorDifferences) :
                 LET similarity == ComparatorDifferences[i].similarity
                 IN  similarity # Undefined /\ InUnitInterval(similarity)
        ELSE /\ Len(ComparatorDifferences) = 1
             /\ ComparatorDifferences[1].key = S_parse_error
             /\ ComparatorDifferences[1].similarity = Undefined
C18_Witness ==
    /\ Returned
    /\ BothParsed
    /\ Len(ComparatorDifferences) >= 2
    /\ \E i \in 1..Len(ComparatorDifferences) :
           StrictlyInside(ComparatorDifferences[i].similarity)
    /\ \E i \in 1..Len(ComparatorDifferences) :
           ComparatorDifferences[i].similarity = FracInt(0)

----------------------------------------------------------------------------
(* The per-case loop of the test command *)

\* a result that says the case did not finish and carries nothing of a comparison
IsUnfinishedResultOf(result, testCase) ==
    /\ ~result.isFinished
    /\ ~result.isSuccess
    /\ result.timeElapsed = 0
    /\ result.cost = 0
    /\ result.actualResponse = JNull
    /\ result.input = testCase.input
    /\ result.expectedResponse = testCase.expectedResponse
    /\ ~result.differences.def
    /\ ~result.matchedFields.def
    /\ ~result.missingFields.def
    /\ ~result.extraFields.def

\* C19: when running a case throws (the error is reported for that case), a
\* result with isFinished = false, isSuccess = false, timeElapsed = 0, cost = 0,
\* actualResponse = null and no differences or field sets is appended for it,
\* and the loop goes on with the next case.
C19_ThrownCaseIsRecorded ==
    [][Len(errorLog') > Len(errorLog) =>
          /\ errorLog' = Append(errorLog, index + 1)
          /\ Len(results') > Len(results)
          /\ SubSeq(results', 1, Len(results)) = results
          /\ IsUnfinishedResultOf(results'[Len(results')], testCases[index + 1])
          /\ pc' = "loop"
          /\ index' = index + 1
          /\ testCases' = testCases]_vars
C19_Witness ==
    /\ Done
    /\ ~verbose
    /\ Len(testCases) = 3
    /\ errorLog = <<2>>
    /\ ~results[2].isFinished
    /\ results[3].isFinished
    /\ metrics.v.totalTests = 3

\* C20 as stated: calculateMetrics is invoked once per run, only after the loop
\* over the test cases has ended, and the batch it receives holds one TestResult
\* per test case, in test-case order, whether the run is verbose or not.
OneResultPerCase ==
    /\ Len(results) = Len(testCases)
    /\ \A i \in 1..Len(results) :
           /\ results[i].input = testCases[i].input
           /\ results[i].expectedResponse = testCases[i].expectedResponse
IsResultOf(result, testCase) ==
    /\ result.input = testCase.input
    /\ result.expectedResponse = testCase.expectedResponse
RECURSIVE ResultsFollowCases(_, _)
ResultsFollowCases(rs, cs) ==
    IF Len(cs) = 0 THEN Len(rs) = 0
    ELSE /\ Len(rs) >= 1
         /\ IsResultOf(rs[1], cs[1])
         /\ \/ ResultsFollowCases(Tail(rs), Tail(cs))
            \/ /\ Len(rs) >= 2
               /\ rs[1].isFinished
               /\ IsUnfinishedResultOf(rs[2], cs[1])
               /\ ResultsFollowCases(Tail(Tail(rs)), Tail(cs))

----------------------------------------------------------------------------
(* The empty batch *)

\* C21: calculateMetrics on an empty list returns a result whose three counts are
\* 0, whose f1Score, costPerSuccess and totalCost are 0 and whose field and error
\* maps are empty, while averageTime, averageCost and successRate are the NaN of
\* 0/0.
C21_EmptyBatch ==
    (Done /\ results = <<>>) =>
        /\ metrics.def
        /\ metrics.v.totalTests = 0
        /\ metrics.v.successfulTests = 0
        /\ metrics.v.failedTests = 0
        /\ metrics.v.f1Score = DoubleZero
        /\ metrics.v.costPerSuccess = FracInt(0)
        /\ metrics.v.totalCost = 0
        /\ metrics.v.fieldSuccessRates = <<>>
        /\ metrics.v.mostFailedFields = <<>>
        /\ metrics.v.errorDistribution = <<>>
        /\ IsNaN(metrics.v.averageTime)
        /\ IsNaN(metrics.v.averageCost)
        /\ IsNaN(metrics.v.successRate)
C21_Witness ==
    /\ Done
    /\ results = <<>>
    /\ metricsCalls = 1
    /\ metrics.v.totalTests = 0
    /\ metrics.v.averageTime = NaN

----------------------------------------------------------------------------
(* The falsy check *)

\* two values that are not identical, one of them falsy, meet at a location
FalsyPairReached ==
    /\ Returned /\ BothParsed
    /\ ~StrictEq(CurrentFocus.e, CurrentFocus.a)
    /\ \/ CurrentFocus.e \in {JNull, JBool(FALSE), JNum(0), JStr(<<>>)}
       \/ CurrentFocus.a \in {JNull, JBool(FALSE), JNum(0), JStr(<<>>)}

\* C22: when the two compared values are not identical and one of them is null,
\* 0, the empty string or false, exactly one difference with similarity 0 is
\* recorded and the comparison fails, whatever the type rules would say of the
\* pair (two numbers within tolerance, two booleans, two strings, two types).
C22_FalsyPairFails ==
    FalsyPairReached
        => /\ ~testResult.isSuccess
           /\ testResult.differences =
                 Some(<<Difference(CurrentFocus.path, CurrentFocus.e, CurrentFocus.a,
                                   FracInt(0))>>)
C22_Witness ==
    /\ FalsyPairReached
    /\ CurrentFocus.e = JNum(0)
    /\ CurrentFocus.a = JNum(5)
    /\ WithinTolerance(0, 5)
    /\ Len(CurrentFocus.path) > 0
    /\ ~testResult.isSuccess
    /\ Len(testResult.differences.v) = 1

----------------------------------------------------------------------------
(* Differences of a matching comparison *)

\* a difference between the two numbers or the two strings found at its path,
\* whose similarity is strictly between 0 and 1
IsSoftDifference(d) ==
    /\ d.expected = ValueAt(ParsedExpected.val, d.path)
    /\ d.actual = ValueAt(ParsedActual.val, d.path)
    /\ d.expected.t = d.actual.t
    /\ d.expected.t \in {"number", "string"}
    /\ d.similarity # Undefined
    /\ StrictlyInside(d.similarity)

\* C23: when a comparison returns isMatch = true, each difference it recorded is
\* between two numbers or two strings and has 0 < similarity < 1: no difference
\* with similarity 0 and no nullish, type, boolean, array-length or object-key
\* difference accompanies a match.
C23_MatchHasOnlySoftDifferences ==
    (Returned /\ comparison.isMatch) =>
        \A i \in 1..Len(ComparatorDifferences) : IsSoftDifference(ComparatorDifferences[i])
C23_Witness ==
    /\ Returned
    /\ comparison.isMatch
    /\ \E i \in 1..Len(ComparatorDifferences) : ComparatorDifferences[i].expected.t = "number"
    /\ \E i \in 1..Len(ComparatorDifferences) : ComparatorDifferences[i].expected.t = "string"

----------------------------------------------------------------------------
(* Copies *)

\* the same JSON content, whatever the allocation and the order of the keys
RECURSIVE SameContent(_, _)
SameContent(x, y) ==
    IF x.t # y.t THEN FALSE
    ELSE IF x.t = "array"
         THEN /\ Len(x.v) = Len(y.v)
              /\ \A i \in 1..Len(x.v) : SameContent(x.v[i], y.v[i])
    ELSE IF x.t = "object"
         THEN /\ Len(x.v) = Len(y.v)
              /\ OwnKeySet(x) = OwnKeySet(y)
              /\ \A k \in OwnKeySet(x) : SameContent(EntryValue(x.v, k), EntryValue(y.v, k))
    ELSE x = y

\* the comparator receives two containers that are different references
DistinctCopiesCompared ==
    /\ Returned /\ BothParsed
    /\ IsContainer(ParsedExpected.val) /\ IsContainer(ParsedActual.val)
    /\ ParsedExpected.val.ref # ParsedActual.val.ref
    /\ SameContent(ParsedExpected.val, ParsedActual.val)

\* C24: two distinct copies of the same JSON value match and no difference is
\* recorded, also when the value holds 0, the empty string, false, null, an
\* empty array or an empty object.
C24_CopiesMatch ==
    DistinctCopiesCompared => (comparison.isMatch /\ ~comparison.differences.def)
C24_Witness ==
    /\ DistinctCopiesCompared
    /\ ParsedExpected.val.t = "array"
    /\ \E i \in 1..Len(ParsedExpected.val.v) : ParsedExpected.val.v[i] = JNum(0)
    /\ \E i \in 1..Len(ParsedExpected.val.v) : ParsedExpected.val.v[i] = JNull
    /\ \E i \in 1..Len(ParsedExpected.val.v) :
           ParsedExpected.val.v[i].t = "object" /\ ParsedExpected.val.v[i].v = <<>>
    /\ comparison.isMatch

----------------------------------------------------------------------------
(* Failed comparisons *)

\* C25: a comparison that returns isMatch = false carries at least one
\* difference.
C25_FailureIsExplained ==
    (Returned /\ ~comparison.isMatch) =>
        (comparison.differences.def /\ Len(comparison.differences.v) > 0)

----------------------------------------------------------------------------
(* The first failure ends the comparison *)

\* C26: the comparison stops at the first element or value that fails, so every
\* difference but the last is a number or string difference that passed: at most
\* one difference comes from a failing comparison and it is the last entry.
C26_OnlyLastDifferenceFails ==
    Returned =>
        \A i \in 1..(Len(ComparatorDifferences) - 1) :
            IsSoftDifference(ComparatorDifferences[i])
C26_Witness ==
    /\ Returned /\ BothParsed
    /\ ~comparison.isMatch
    /\ Len(ComparatorDifferences) = 2
    /\ IsSoftDifference(ComparatorDifferences[1])
    /\ ComparatorDifferences[2].similarity = FracInt(0)

----------------------------------------------------------------------------
(* Arrays and plain objects *)

\* an array meets a plain object at a location, in either order
ArrayMeetsObject ==
    /\ Returned /\ BothParsed
    /\ \/ CurrentFocus.e.t = "array" /\ CurrentFocus.a.t = "object"
       \/ CurrentFocus.e.t = "object" /\ CurrentFocus.a.t = "array"

\* C27: an array compared with a plain object, at the root or at a nested
\* location and in either order, never matches.
C27_ArrayNeverMatchesObject ==
    ArrayMeetsObject => ~comparison.isMatch

----------------------------------------------------------------------------
(* Time metrics *)

BatchTimes == {results[i].timeElapsed : i \in 1..Len(results)}
IsBatchTime(x) == x # Undefined /\ x.den = 1 /\ x.num \in BatchTimes

\* C28: for a non-empty batch, minTime, medianTime and maxTime are finite
\* numbers among the timeElapsed values of the batch, and
\* minTime <= medianTime <= maxTime.
C28_TimeMetricsAreOrdered ==
    (Done /\ Len(results) > 0) =>
        /\ IsBatchTime(metrics.v.minTime)
        /\ IsBatchTime(metrics.v.medianTime)
        /\ IsBatchTime(metrics.v.maxTime)
        /\ FracLeq(metrics.v.minTime, metrics.v.medianTime)
        /\ FracLeq(metrics.v.medianTime, metrics.v.maxTime)

----------------------------------------------------------------------------
(* The order of the batch *)

\* the batch with its first two cases exchanged, and the batch with its first
\* case moved to the end: every permutation is a chain of these two steps
FirstTwoExchanged(list) ==
    IF Len(list) < 2 THEN list ELSE <<list[2], list[1]>> \o SubSeq(list, 3, Len(list))
Rotated(list) == IF Len(list) < 2 THEN list ELSE Tail(list) \o <<list[1]>>

\* the batch with the matchedFields of its first case listed in the opposite order
Reversed(list) == [k \in 1..Len(list) |-> list[Len(list) + 1 - k]]
FirstFieldsReversed(list) ==
    IF Len(list) > 0 /\ list[1].matchedFields.def
    THEN <<[list[1] EXCEPT !.matchedFields = Some(Reversed(list[1].matchedFields.v))]>>
             \o Tail(list)
    ELSE list

FieldsOf(top) == {top[i].field : i \in 1..Len(top)}
RatesOf(top) == [i \in 1..Len(top) |-> top[i].failureRate]

\* mostFailedFields of the same cases in another order
TopAfterExchange == mostFailedFieldsOf(buildFieldCounts(FirstTwoExchanged(results)))
TopAfterRotation == mostFailedFieldsOf(buildFieldCounts(Rotated(results)))
TopAfterReversal == mostFailedFieldsOf(buildFieldCounts(FirstFieldsReversed(results)))
SameRates(top) == RatesOf(top) = RatesOf(metrics.v.mostFailedFields)
SameFields(top) == FieldsOf(top) = ListedFields

\* no field left out of mostFailedFields fails as often as a listed one
NoTieAtTheCut ==
    \A field \in TrackedFields \ ListedFields :
        \A i \in 1..Len(metrics.v.mostFailedFields) :
            FracLess(FailureRateOf(field), metrics.v.mostFailedFields[i].failureRate)

\* C29 as stated: the set of fields listed in mostFailedFields is the same for
\* a batch and for the same cases in another order.
C29_ListedFieldsIgnoreOrder ==
    Done => (/\ SameFields(TopAfterExchange)
             /\ SameFields(TopAfterRotation)
             /\ SameFields(TopAfterReversal))

\* C29: reordering the batch leaves the failure rates listed in mostFailedFields
\* unchanged, and the set of listed fields unchanged when no field left out
\* fails as often as a listed one.
C29_ListedFieldsIgnoreOrderWithoutTie ==
    Done =>
        LET exchanged == TopAfterExchange
            rotated == TopAfterRotation
            reversed == TopAfterReversal
        IN  /\ SameRates(exchanged) /\ SameRates(rotated) /\ SameRates(reversed)
            /\ NoTieAtTheCut =>
                   (SameFields(exchanged) /\ SameFields(rotated) /\ SameFields(reversed))
C29_Witness ==
    /\ Done
    /\ Len(results) = 2
    /\ Cardinality(TrackedFields) > 5
    /\ NoTieAtTheCut
    /\ buildFieldCounts(FirstTwoExchanged(results)) # buildFieldCounts(results)
    /\ SameFields(TopAfterExchange)

----------------------------------------------------------------------------
(* Fields that never failed *)

\* C30: every entry of mostFailedFields has failureRate > 0: a field whose
\* occurrences were all in passing cases is not listed.
C30_ListedFieldsHaveFailed ==
    Done =>
        \A i \in 1..Len(metrics.v.mostFailedFields) :
            /\ FracLess(FracInt(0), metrics.v.mostFailedFields[i].failureRate)
            /\ PassingCasesTracking(metrics.v.mostFailedFields[i].field)
                   # CasesTracking(metrics.v.mostFailedFields[i].field)

=============================================================================
